---- MODULE Spec2Model ----
(***************************************************************************)
(* A model of porch's repository cache (package cache, cachedRepository)   *)
(* and of the CaD engine's mutation pipeline (package engine, cadEngine),  *)
(* both from src/porch/pkg/cache/repository.go.                            *)
(*                                                                         *)
(* The specifications share the module's pure operators:                   *)
(*   Spec          the cached repository under concurrent callers;         *)
(*   SpecFn        the pure list functions on bounded inputs;              *)
(*   SpecEngine    the engine's create / update pipeline over one draft;   *)
(*   SpecResources the engine's resource replacement;                      *)
(*   SpecPoll      the background poller, ListFunctions and Close          *)
(*                 (FairSpecPoll: the same under fair scheduling);         *)
(*   SpecView      the cached list as Go holds it, slices of pointers to   *)
(*                 shared objects, with one reader and one update().       *)
(***************************************************************************)
EXTENDS Integers, Sequences, FiniteSets, TLC

VARIABLES
    \* SpecFn: the list functions applied to one cached list.
    fnList,         \* the cached list the functions are applied to
    fnOp,           \* the last call made: update(closed) or a listing with a filter
    fnOut,          \* what the last listing returned
    \* Spec: one cachedRepository and the backend repository it wraps.
    repo,           \* the backend: each name's committed lifecycle, or Absent
    cachedPackages, \* r.cachedPackages: nil or the cached list
    refreshError,   \* r.refreshError
    mutex,          \* r.mutex: the thread holding it, or 0
    pc,             \* each thread's position in the call it is making
    call,           \* each thread's call: operation and arguments
    packages,       \* getPackages' local variable packages
    err,            \* getPackages' local variable err (declared at line 113)
    fetch,          \* whether the call fetched from the backend, and the error of that fetch
    ret,            \* what the call returned: list and error
    started,        \* the number of calls made so far
    \* History of the run, read by the claims only.
    lastStore,      \* the thread whose getPackages store wrote the cache last, 0 if update/delete wrote since
    stores,         \* the number of getPackages stores so far, counted up to MaxCalls
    absorbed,       \* names absorbed by update() and not deleted since
    deleted,        \* names whose DeletePackageRevision returned success, not committed or listed since
    mustSee,        \* absorbed, as it was when the thread's listing began
    mustNotSee,     \* deleted, as it was when the thread's listing began
    \* The function list of the cache and the background poller.
    cachedFunctions,    \* r.cachedFunctions: nil or the cached list
    functions,          \* getFunctions' local variable functions
    supportsFunctions,  \* whether r.repo implements repository.FunctionRepository
    cancelled,          \* whether the poller's context has been cancelled
    \* SpecEngine: one request to the CaD engine and the draft it drives.
    engPc,          \* the engine's position in the request
    engReq,         \* the request: create or update, the revision, the task lists
    engMutations,   \* the mutation list built for the request
    engIdx,         \* updateDraft's position in the mutation list
    engBase,        \* updateDraft's baseResources
    engApplied,     \* the outcome of the latest Apply: snapshot and task
    engDraft,       \* the draft: opened, what UpdateResources pushed into it, closed
    engRet,         \* what the engine returned: the error, or none
    engContents,    \* the backend: each committed revision's resources
    engLog,         \* the calls the request made on mutations and draft, in order
    engBefore,      \* history: backend and cache as they were when the request began
    \* SpecView: the memory behind r.cachedPackages and a returned list.
    heapObjects,    \* the cachedPackageRevision objects allocated so far; a pointer is an index
    heapArrays,     \* the backing arrays allocated so far, each as long as its capacity
    cachedRef,      \* r.cachedPackages as a slice header: backing array (0 for nil) and length
    viewPc,         \* the positions of the reader (getPackages) and of the writer (update)
    viewLocal,      \* the reader's locals: packages (a slice header), err, and the fetch's err
    view,           \* what the reader's getPackages returned: a list of pointers, and the error
    viewUpd         \* the writer's locals: closed, the pointer cached, the loop index

(***************************************************************************)
(* Strings.  Go compares strings byte by byte (strings.Compare), and the   *)
(* semver package parses them character by character, so every string the  *)
(* code compares or parses is spelled out here as its sequence of          *)
(* characters.                                                             *)
(***************************************************************************)
Ord ==
    ("+" :> 43) @@ ("-" :> 45) @@ ("." :> 46) @@
    ("0" :> 48) @@ ("1" :> 49) @@ ("2" :> 50) @@ ("3" :> 51) @@
    ("D" :> 68) @@ ("P" :> 80) @@
    ("a" :> 97) @@ ("b" :> 98) @@ ("c" :> 99) @@ ("d" :> 100) @@
    ("e" :> 101) @@ ("f" :> 102) @@ ("h" :> 104) @@ ("i" :> 105) @@
    ("l" :> 108) @@ ("m" :> 109) @@ ("n" :> 110) @@ ("o" :> 111) @@
    ("p" :> 112) @@ ("r" :> 114) @@ ("s" :> 115) @@ ("t" :> 116) @@
    ("u" :> 117) @@ ("v" :> 118) @@ ("x" :> 120)

Chars ==
    ("" :> << >>) @@
    ("foo" :> <<"f","o","o">>) @@
    ("bar" :> <<"b","a","r">>) @@
    ("Draft" :> <<"D","r","a","f","t">>) @@
    ("Proposed" :> <<"P","r","o","p","o","s","e","d">>) @@
    ("Published" :> <<"P","u","b","l","i","s","h","e","d">>) @@
    ("main" :> <<"m","a","i","n">>) @@
    ("v1" :> <<"v","1">>) @@
    ("v1.0.0" :> <<"v","1",".","0",".","0">>) @@
    ("v1.1.0" :> <<"v","1",".","1",".","0">>) @@
    ("v1.2.0" :> <<"v","1",".","2",".","0">>) @@
    ("v1.10.0" :> <<"v","1",".","1","0",".","0">>) @@
    ("v1.2.0-rc" :> <<"v","1",".","2",".","0","-","r","c">>) @@
    ("v01.0.0" :> <<"v","0","1",".","0",".","0">>) @@
    ("n1" :> <<"n","1">>) @@
    ("n2" :> <<"n","2">>) @@
    ("n3" :> <<"n","3">>) @@
    ("n10" :> <<"n","1","0">>) @@
    ("x1" :> <<"x","1">>) @@
    ("x2" :> <<"x","2">>)

Digits == {"0", "1", "2", "3"}

Sign(n) == IF n < 0 THEN -1 ELSE IF n > 0 THEN 1 ELSE 0

\* strings.Compare on character sequences: -1, 0 or +1, bytewise.
RECURSIVE SeqCompare(_, _)
SeqCompare(a, b) ==
    IF a = << >> /\ b = << >> THEN 0
    ELSE IF a = << >> THEN -1
    ELSE IF b = << >> THEN 1
    ELSE IF Ord[Head(a)] < Ord[Head(b)] THEN -1
    ELSE IF Ord[Head(a)] > Ord[Head(b)] THEN 1
    ELSE SeqCompare(Tail(a), Tail(b))

stringsCompare(s, t) == SeqCompare(Chars[s], Chars[t])

(***************************************************************************)
(* golang.org/x/mod/semver, as identifyLatestRevisions uses it: IsValid    *)
(* and Compare.  A version is "v" MAJOR [ "." MINOR [ "." PATCH            *)
(* [ "-" PRERELEASE ] [ "+" BUILD ] ] ]; numbers have no leading zero.     *)
(* Compare orders an invalid version below every valid one and two         *)
(* invalid versions as equal; build metadata is ignored.                   *)
(***************************************************************************)
\* The length of the longest prefix of s made of digits.
RECURSIVE DigitRun(_)
DigitRun(s) ==
    IF s = << >> \/ Head(s) \notin Digits THEN 0 ELSE 1 + DigitRun(Tail(s))

RECURSIVE DigitsValue(_, _)
DigitsValue(s, acc) ==
    IF s = << >> THEN acc
    ELSE DigitsValue(Tail(s), 10 * acc + (Ord[Head(s)] - Ord["0"]))

\* The length of the prefix of s before the first occurrence of c.
RECURSIVE RunUntil(_, _)
RunUntil(s, c) ==
    IF s = << >> \/ Head(s) = c THEN 0 ELSE 1 + RunUntil(Tail(s), c)

Drop(s, n) == SubSeq(s, n + 1, Len(s))

\* parseInt: [ok, n, rest]; a number is a non-empty digit run with no leading zero.
parseInt(s) ==
    LET k == DigitRun(s) IN
    IF k = 0 \/ (k > 1 /\ Head(s) = "0")
    THEN [ok |-> FALSE, n |-> 0, rest |-> s]
    ELSE [ok |-> TRUE, n |-> DigitsValue(SubSeq(s, 1, k), 0), rest |-> Drop(s, k)]

\* A prerelease or build tag: non-empty, and no empty dot-separated identifier.
RECURSIVE IdentsOk(_)
IdentsOk(s) ==
    LET k == RunUntil(s, ".") IN
    /\ k > 0
    /\ \A i \in 1..k : s[i] \notin {"+"}
    /\ (k = Len(s) \/ (k < Len(s) /\ IdentsOk(Drop(s, k + 1))))

Invalid == [ok |-> FALSE, major |-> 0, minor |-> 0, patch |-> 0, pre |-> << >>]

Version(ma, mi, pa, pre) ==
    [ok |-> TRUE, major |-> ma, minor |-> mi, patch |-> pa, pre |-> pre]

\* The tail after PATCH: [ "-" PRERELEASE ] [ "+" BUILD ].
parseTail(ma, mi, pa, s) ==
    LET hasPre == s # << >> /\ Head(s) = "-"
        afterDash == IF hasPre THEN Tail(s) ELSE s
        preLen == IF hasPre THEN RunUntil(afterDash, "+") ELSE 0
        pre == SubSeq(afterDash, 1, preLen)
        rest == Drop(afterDash, preLen)
    IN  IF hasPre /\ ~IdentsOk(pre) THEN Invalid
        ELSE IF rest = << >> THEN Version(ma, mi, pa, pre)
        ELSE IF Head(rest) = "+" /\ IdentsOk(Tail(rest)) THEN Version(ma, mi, pa, pre)
        ELSE Invalid

semverParse(s) ==
    IF s = << >> \/ Head(s) # "v" THEN Invalid
    ELSE LET a == parseInt(Tail(s)) IN
         IF ~a.ok THEN Invalid
         ELSE IF a.rest = << >> THEN Version(a.n, 0, 0, << >>)
         ELSE IF Head(a.rest) # "." THEN Invalid
         ELSE LET b == parseInt(Tail(a.rest)) IN
              IF ~b.ok THEN Invalid
              ELSE IF b.rest = << >> THEN Version(a.n, b.n, 0, << >>)
              ELSE IF Head(b.rest) # "." THEN Invalid
              ELSE LET c == parseInt(Tail(b.rest)) IN
                   IF ~c.ok THEN Invalid
                   ELSE parseTail(a.n, b.n, c.n, c.rest)

semverIsValid(v) == semverParse(Chars[v]).ok

\* One prerelease identifier against another: numeric below alphanumeric,
\* numeric by value, otherwise bytewise.
compareIdent(x, y) ==
    LET nx == DigitRun(x) = Len(x)
        ny == DigitRun(y) = Len(y)
    IN  IF nx /\ ny THEN Sign(DigitsValue(x, 0) - DigitsValue(y, 0))
        ELSE IF nx THEN -1
        ELSE IF ny THEN 1
        ELSE SeqCompare(x, y)

\* comparePrerelease: no prerelease is above any prerelease; otherwise
\* identifier by identifier, a shorter list below a longer one it prefixes.
RECURSIVE comparePrerelease(_, _)
comparePrerelease(x, y) ==
    IF x = y THEN 0
    ELSE IF x = << >> THEN 1
    ELSE IF y = << >> THEN -1
    ELSE LET kx == RunUntil(x, ".")
             ky == RunUntil(y, ".")
             c == compareIdent(SubSeq(x, 1, kx), SubSeq(y, 1, ky))
         IN  IF c # 0 THEN c
             ELSE IF kx = Len(x) /\ ky = Len(y) THEN 0
             ELSE IF kx = Len(x) THEN -1
             ELSE IF ky = Len(y) THEN 1
             ELSE comparePrerelease(Drop(x, kx + 1), Drop(y, ky + 1))

semverCompare(v, w) ==
    LET pv == semverParse(Chars[v])
        pw == semverParse(Chars[w])
    IN  IF ~pv.ok /\ ~pw.ok THEN 0
        ELSE IF ~pv.ok THEN -1
        ELSE IF ~pw.ok THEN 1
        ELSE IF pv.major # pw.major THEN Sign(pv.major - pw.major)
        ELSE IF pv.minor # pw.minor THEN Sign(pv.minor - pw.minor)
        ELSE IF pv.patch # pw.patch THEN Sign(pv.patch - pw.patch)
        ELSE comparePrerelease(pv.pre, pw.pre)

(***************************************************************************)
(* Package revisions.  A repository.PackageRevision is what the cache      *)
(* reads of it: its KubeObjectName, its Key (Package, Revision) and its    *)
(* Lifecycle.  A cachedPackageRevision decorates one with the flag         *)
(* isLatestRevision.  A Go slice is nil or a sequence: nil is the "not yet *)
(* loaded" value of cachedPackages, distinct from a loaded, empty list.    *)
(***************************************************************************)
Draft == "Draft"

Proposed == "Proposed"

Published == "Published"

Lifecycles == {Draft, Proposed, Published}

PackageRevision(name, pkg, rev, lc) ==
    [name |-> name, Package |-> pkg, Revision |-> rev, lc |-> lc]

cachedPackageRevision(pr, flag) == [pr |-> pr, isLatestRevision |-> flag]

Key(c) == [Package |-> c.pr.Package, Revision |-> c.pr.Revision]

Lifecycle(c) == c.pr.lc

KubeObjectName(c) == c.pr.name

NilSlice == [nil |-> TRUE, items |-> << >>]

Slice(items) == [nil |-> FALSE, items |-> items]

\* The scan of identifyLatestRevisions: latest maps a package name to the
\* index (the pointer) of the latest revision found so far.
RECURSIVE latestScan(_, _, _)
latestScan(result, i, latest) ==
    IF i > Len(result) THEN latest
    ELSE LET current == result[i]
             currentKey == Key(current)
         IN  IF Lifecycle(current) # Published
             THEN latestScan(result, i + 1, latest)
             ELSE IF currentKey.Package \in DOMAIN latest
             THEN LET previousKey == Key(result[latest[currentKey.Package]])
                      cmp == semverCompare(currentKey.Revision, previousKey.Revision)
                  IN  IF cmp > 0
                      THEN latestScan(result, i + 1,
                                      [latest EXCEPT ![currentKey.Package] = i])
                      ELSE latestScan(result, i + 1, latest)
             ELSE IF semverIsValid(currentKey.Revision)
             THEN latestScan(result, i + 1, (currentKey.Package :> i) @@ latest)
             ELSE latestScan(result, i + 1, latest)

\* The variant that seeds the latest slot of a package with any Published
\* revision, valid semantic version or not.
RECURSIVE latestScanAnySeed(_, _, _)
latestScanAnySeed(result, i, latest) ==
    IF i > Len(result) THEN latest
    ELSE LET current == result[i]
             currentKey == Key(current)
         IN  IF Lifecycle(current) # Published
             THEN latestScanAnySeed(result, i + 1, latest)
             ELSE IF currentKey.Package \in DOMAIN latest
             THEN LET previousKey == Key(result[latest[currentKey.Package]])
                      cmp == semverCompare(currentKey.Revision, previousKey.Revision)
                  IN  IF cmp > 0
                      THEN latestScanAnySeed(result, i + 1,
                                      [latest EXCEPT ![currentKey.Package] = i])
                      ELSE latestScanAnySeed(result, i + 1, latest)
             ELSE latestScanAnySeed(result, i + 1, (currentKey.Package :> i) @@ latest)

\* identifyLatestRevisions: every flag cleared, then the winners flagged.
markLatest(result, latest) ==
    [i \in 1..Len(result) |->
        cachedPackageRevision(result[i].pr, \E p \in DOMAIN latest : latest[p] = i)]

identifyLatestRevisionsAnySeed(result) ==
    markLatest(result, latestScanAnySeed(result, 1, << >>))

identifyLatestRevisions(result) == markLatest(result, latestScan(result, 1, << >>))

toCachedPackageRevisionSlice(revisions) ==
    identifyLatestRevisions(
        [i \in 1..Len(revisions) |-> cachedPackageRevision(revisions[i], FALSE)])

\* The variant that appends without looking for the id.
updateOrAppendAlways(revisions, new) == Append(revisions, new)

updateOrAppend(revisions, new) ==
    IF \E i \in 1..Len(revisions) : KubeObjectName(revisions[i]) = KubeObjectName(new)
    THEN LET i == CHOOSE k \in 1..Len(revisions) :
                     /\ KubeObjectName(revisions[k]) = KubeObjectName(new)
                     /\ \A j \in 1..(k - 1) :
                            KubeObjectName(revisions[j]) # KubeObjectName(new)
         IN  [revisions EXCEPT ![i] = new]
    ELSE Append(revisions, new)

\* The body of update() between Lock and Unlock: the new value of
\* cachedPackages (append to a nil slice gives a non-nil one).
update(cached, closed) ==
    Slice(identifyLatestRevisions(
              updateOrAppend(cached.items, cachedPackageRevision(closed, FALSE))))

\* repository.ListPackageRevisionFilter: an empty field matches everything.
Matches(filter, c) ==
    /\ filter.Package = "" \/ filter.Package = Key(c).Package
    /\ filter.Revision = "" \/ filter.Revision = Key(c).Revision

MatchAll == [Package |-> "", Revision |-> ""]

\* The variant that orders the revisions of a package as semantic versions.
sortLessSemver(a, b) ==
    LET byPackage == stringsCompare(Key(a).Package, Key(b).Package)
        byRevision == semverCompare(Key(a).Revision, Key(b).Revision)
        byLifecycle == stringsCompare(Lifecycle(a), Lifecycle(b))
    IN  IF byPackage < 0 THEN TRUE
        ELSE IF byPackage > 0 THEN FALSE
        ELSE IF byRevision < 0 THEN TRUE
        ELSE IF byRevision > 0 THEN FALSE
        ELSE IF byLifecycle < 0 THEN TRUE
        ELSE IF byLifecycle > 0 THEN FALSE
        ELSE stringsCompare(KubeObjectName(a), KubeObjectName(b)) < 0

\* The less function toPackageRevisionSlice hands to sort.Slice.
sortLess(a, b) ==
    LET byPackage == stringsCompare(Key(a).Package, Key(b).Package)
        byRevision == stringsCompare(Key(a).Revision, Key(b).Revision)
        byLifecycle == stringsCompare(Lifecycle(a), Lifecycle(b))
    IN  IF byPackage < 0 THEN TRUE
        ELSE IF byPackage > 0 THEN FALSE
        ELSE IF byRevision < 0 THEN TRUE
        ELSE IF byRevision > 0 THEN FALSE
        ELSE IF byLifecycle < 0 THEN TRUE
        ELSE IF byLifecycle > 0 THEN FALSE
        ELSE stringsCompare(KubeObjectName(a), KubeObjectName(b)) < 0

\* sort.Slice on a slice of fewer than 12 elements is an insertion sort:
\* element i moves down while it is less than the one before it.
RECURSIVE insertDown(_, _)
insertDown(s, j) ==
    IF j > 1 /\ sortLess(s[j], s[j - 1])
    THEN insertDown([s EXCEPT ![j] = s[j - 1], ![j - 1] = s[j]], j - 1)
    ELSE s

RECURSIVE insertionSort(_, _)
insertionSort(s, i) ==
    IF i > Len(s) THEN s ELSE insertionSort(insertDown(s, i), i + 1)

sortSlice(s) == insertionSort(s, 2)

RECURSIVE filterSlice(_, _)
filterSlice(cached, filter) ==
    IF cached = << >> THEN << >>
    ELSE IF Matches(filter, Head(cached))
    THEN <<Head(cached)>> \o filterSlice(Tail(cached), filter)
    ELSE filterSlice(Tail(cached), filter)

\* toPackageRevisionSlice of a nil or loaded slice: always a non-nil result.
toPackageRevisionSlice(cached, filter) == sortSlice(filterSlice(cached.items, filter))

(***************************************************************************)
(* SpecFn: identifyLatestRevisions, updateOrAppend / update and            *)
(* toPackageRevisionSlice applied to bounded lists.  The first state is    *)
(* the cache after any load (nil, or toCachedPackageRevisionSlice of any   *)
(* list the backend returns); a later load only leads back to one of       *)
(* these first states.  Backends name every revision uniquely, so the      *)
(* lists they return hold pairwise distinct KubeObjectNames.               *)
(***************************************************************************)
MaxLen == 3

\* The revisions of the catalogue: a KubeObjectName with its key.  n1 and x1
\* carry the same key; n10 sorts before n2 as a string; "main" is no
\* semantic version; v1.10.0 is above v1.2.0 semantically, below it as a string.
FnKeys ==
    { <<"n1", "foo", "v1.2.0">>, <<"n2", "foo", "v1.10.0">>, <<"n10", "foo", "main">>,
      <<"n3", "bar", "v1.2.0-rc">>, <<"x1", "foo", "v1.2.0">> }

FnRevisions == { PackageRevision(k[1], k[2], k[3], lc) : k \in FnKeys, lc \in Lifecycles }

FnFilters ==
    { MatchAll, [Package |-> "foo", Revision |-> ""], [Package |-> "", Revision |-> "v1.2.0"] }

DistinctNames(items) ==
    \A i, j \in 1..Len(items) : i # j => items[i].name # items[j].name

FnInputs ==
    { p \in UNION { [1..n -> FnRevisions] : n \in 0..MaxLen } : DistinctNames(p) }

cacheVars == <<repo, cachedPackages, refreshError, mutex>>

threadVars == <<pc, call, packages, err, fetch, ret, started>>

historyVars == <<lastStore, stores, absorbed, deleted, mustSee, mustNotSee>>

fnVars == <<fnList, fnOp, fnOut>>

pollVars == <<cachedFunctions, functions, supportsFunctions, cancelled>>

engVars == <<engPc, engReq, engMutations, engIdx, engBase, engApplied, engDraft, engRet,
             engContents, engLog, engBefore>>

viewVars == <<heapObjects, heapArrays, cachedRef, viewPc, viewLocal, view, viewUpd>>

notFnVars == <<cacheVars, threadVars, historyVars, engVars, pollVars, viewVars>>

notCacheVars == <<fnVars, engVars, pollVars, viewVars>>

vars == <<fnVars, cacheVars, threadVars, historyVars, engVars, pollVars, viewVars>>

NoOp == [op |-> "none", closed |-> PackageRevision("", "", "", ""), filter |-> MatchAll]

FnStart ==
    /\ fnList \in {NilSlice} \cup { Slice(toCachedPackageRevisionSlice(p)) : p \in FnInputs }
    /\ fnOp = NoOp
    /\ fnOut = << >>

\* r.update(closed) on the list.
FnUpdate(closed) ==
    /\ Len(update(fnList, closed).items) <= MaxLen
    /\ fnList' = update(fnList, closed)
    /\ fnOp' = [NoOp EXCEPT !.op = "update", !.closed = closed]
    /\ fnOut' = << >>
    /\ UNCHANGED notFnVars

\* toPackageRevisionSlice(r.cachedPackages, filter), as getPackages returns it.
FnListing(filter) ==
    /\ fnOut' = toPackageRevisionSlice(fnList, filter)
    /\ fnOp' = [NoOp EXCEPT !.op = "list", !.filter = filter]
    /\ UNCHANGED <<fnList, notFnVars>>

FnNext ==
    \/ \E closed \in FnRevisions : FnUpdate(closed)
    \/ \E filter \in FnFilters : FnListing(filter)

(***************************************************************************)
(* Spec: the cached repository.  Threads call ListPackageRevisions, a      *)
(* forced getPackages (pollOnce's refresh), open and commit drafts, and    *)
(* delete revisions.  A thread takes one step per critical section of      *)
(* r.mutex and one per backend call, which is where Go can interleave      *)
(* them observably.                                                        *)
(***************************************************************************)
NumThreads == 2

MaxCalls == 3

Threads == 1..NumThreads

\* The goroutine newRepository starts to run pollForever (line 79).  Its
\* number is past the callers'; 0 is the free mutex.
Poller == NumThreads + 1

AllThreads == Threads \cup {Poller}

Absent == "absent"

NoError == "nil"

\* The errors a backend call can return.
Errors == {"backend error"}

\* The revisions the backend can hold: KubeObjectName -> key.
RepoKey == ("n1" :> <<"foo", "v1.2.0">>) @@ ("n2" :> <<"foo", "v1.10.0">>)

RepoNames == DOMAIN RepoKey

RepoOrder == <<"n1", "n2">>

\* The lifecycle of the revisions the threads commit.  Lifecycles other than
\* Published are exercised under SpecFn.
RepoLifecycles == {Published}

RepoRevision(name, lc) == PackageRevision(name, RepoKey[name][1], RepoKey[name][2], lc)

\* What the backend's ListPackageRevisions returns: the committed
\* revisions, here in the order of RepoOrder.
RECURSIVE repoList(_, _)
repoList(r, i) ==
    IF i > Len(RepoOrder) THEN << >>
    ELSE IF r[RepoOrder[i]] = Absent THEN repoList(r, i + 1)
    ELSE <<RepoRevision(RepoOrder[i], r[RepoOrder[i]])>> \o repoList(r, i + 1)

NoCall == [op |-> "none", force |-> FALSE, filter |-> MatchAll,
           closed |-> PackageRevision("", "", "", "")]

NoFetch == [done |-> FALSE, err |-> NoError]

NoRet == [list |-> NilSlice, err |-> NoError]

\* No thread is in a call, and nothing has been recorded.
\* The goroutines of SpecView: one runs getPackages, one runs update().
Reader == 1

Writer == 2

\* A nil slice: no backing array.
NilRef == [arr |-> 0, len |-> 0]

NoLocal == [arr |-> 0, len |-> 0, err |-> NoError, fetchErr |-> NoError]

NoView == [list |-> << >>, err |-> NoError]

NoUpd == [closed |-> PackageRevision("", "", "", ""), new |-> 0, i |-> 0]

\* Nothing allocated, nothing returned, reader and writer idle.
ViewQuiet ==
    /\ heapObjects = << >>
    /\ heapArrays = << >>
    /\ cachedRef = NilRef
    /\ viewPc = <<"idle", "idle">>
    /\ viewLocal = NoLocal
    /\ view = NoView
    /\ viewUpd = NoUpd

ThreadsQuiet ==
    /\ ViewQuiet
    /\ mutex = 0
    /\ pc = [t \in AllThreads |-> IF t = Poller THEN "select" ELSE "idle"]
    /\ call = [t \in AllThreads |-> NoCall]
    /\ packages = [t \in AllThreads |-> NilSlice]
    /\ err = [t \in AllThreads |-> NoError]
    /\ fetch = [t \in AllThreads |-> NoFetch]
    /\ ret = [t \in AllThreads |-> NoRet]
    /\ functions = [t \in AllThreads |-> NilSlice]
    /\ cancelled = FALSE
    /\ started = 0
    /\ lastStore = 0
    /\ stores = 0
    /\ absorbed = {}
    /\ deleted = {}
    /\ mustSee = [t \in AllThreads |-> {}]
    /\ mustNotSee = [t \in AllThreads |-> {}]

\* The backend lists functions; none is cached yet.
FunctionsInit ==
    /\ cachedFunctions = NilSlice
    /\ supportsFunctions = TRUE

\* newRepository (lines 71-82): nothing is cached yet.
CacheInit ==
    /\ repo \in [RepoNames -> RepoLifecycles \cup {Absent}]
    /\ cachedPackages = NilSlice
    /\ refreshError = NoError
    /\ FunctionsInit
    /\ ThreadsQuiet

\* Thread t stands at a position of its call.  A call that has returned
\* hands its result to the caller (Finish) before any thread moves on: the
\* caller's reading of the result touches nothing shared.
At(t, where) ==
    /\ pc[t] = where
    /\ \A u \in AllThreads : pc[u] # "done"

\* Thread t makes a new call.  Threads are interchangeable, so a new call
\* runs on the first idle thread; a run makes at most MaxCalls calls.
Begin(t) ==
    /\ At(t, "idle")
    /\ \A u \in 1..(t - 1) : pc[u] # "idle"
    /\ started < MaxCalls
    /\ started' = started + 1

\* What getPackages returns (lines 134-138) from its locals.
getPackagesResult(e, pkgs, filter) ==
    IF e # NoError
    THEN [list |-> NilSlice, err |-> e]
    ELSE [list |-> Slice(toPackageRevisionSlice(pkgs, filter)), err |-> NoError]

\* getPackages is called and takes the mutex (line 111).
GetPackagesLock(t, filter, force) ==
    /\ Begin(t)
    /\ mutex = 0
    /\ mutex' = t
    /\ pc' = [pc EXCEPT ![t] = "gpRead"]
    /\ call' = [call EXCEPT ![t] = [NoCall EXCEPT !.op = "getPackages",
                                                  !.force = force, !.filter = filter]]
    /\ mustSee' = [mustSee EXCEPT ![t] = IF force THEN {} ELSE absorbed]
    /\ mustNotSee' = [mustNotSee EXCEPT ![t] = IF force THEN {} ELSE deleted]
    /\ deleted' = IF force THEN deleted ELSE {}
    /\ UNCHANGED <<repo, cachedPackages, refreshError, packages, err, fetch, ret,
                   lastStore, stores, absorbed, notCacheVars>>

\* ListPackageRevisions(filter): getPackages(filter, false).
ListPackageRevisions(t, filter) == GetPackagesLock(t, filter, FALSE)

\* pollOnce's refresh: getPackages(ListPackageRevisionFilter{}, true).
ForceRefresh(t) == GetPackagesLock(t, MatchAll, TRUE)

\* The variant that releases the mutex only when it returns: a call that
\* goes on to fetch keeps it.
GetPackagesReadHoldsMutex(t) ==
    /\ At(t, "gpRead")
    /\ mutex = t
    /\ LET pkgs == IF call[t].force THEN NilSlice ELSE cachedPackages IN
       /\ packages' = [packages EXCEPT ![t] = pkgs]
       /\ err' = [err EXCEPT ![t] = refreshError]
       /\ IF pkgs.nil
          THEN /\ pc' = [pc EXCEPT ![t] = "gpFetch"]
               /\ UNCHANGED <<ret, mutex>>
          ELSE /\ pc' = [pc EXCEPT ![t] = "done"]
               /\ mutex' = 0
               /\ ret' = [ret EXCEPT ![t] =
                             getPackagesResult(refreshError, pkgs, call[t].filter)]
    /\ UNCHANGED <<repo, cachedPackages, refreshError, call, fetch, historyVars,
                   started, notCacheVars>>

\* Lines 112-120: the cached list and the error are read under the mutex;
\* a forced call drops the list; a call that holds a list returns it.
GetPackagesRead(t) ==
    /\ At(t, "gpRead")
    /\ mutex = t
    /\ mutex' = 0
    /\ LET pkgs == IF call[t].force THEN NilSlice ELSE cachedPackages IN
       /\ packages' = [packages EXCEPT ![t] = pkgs]
       /\ err' = [err EXCEPT ![t] = refreshError]
       /\ IF pkgs.nil
          THEN /\ pc' = [pc EXCEPT ![t] = "gpFetch"]
               /\ UNCHANGED ret
          ELSE /\ pc' = [pc EXCEPT ![t] = "done"]
               /\ ret' = [ret EXCEPT ![t] =
                             getPackagesResult(refreshError, pkgs, call[t].filter)]
    /\ UNCHANGED <<repo, cachedPackages, refreshError, call, fetch, historyVars,
                   started, notCacheVars>>

\* Line 123-126, the backend's ListPackageRevisions succeeds: the list is
\* wrapped.  The error it returns is the inner err of line 123, not the
\* local err declared at line 113.
GetPackagesFetchOk(t) ==
    /\ At(t, "gpFetch")
    /\ packages' = [packages EXCEPT ![t] = Slice(toCachedPackageRevisionSlice(repoList(repo, 1)))]
    /\ fetch' = [fetch EXCEPT ![t] = [done |-> TRUE, err |-> NoError]]
    /\ pc' = [pc EXCEPT ![t] = "gpLock"]
    /\ UNCHANGED <<cacheVars, call, err, ret, historyVars, started, notCacheVars>>

\* Line 123, the backend's ListPackageRevisions fails: packages stays nil.
GetPackagesFetchErr(t, e) ==
    /\ At(t, "gpFetch")
    /\ fetch' = [fetch EXCEPT ![t] = [done |-> TRUE, err |-> e]]
    /\ pc' = [pc EXCEPT ![t] = "gpLock"]
    /\ UNCHANGED <<cacheVars, call, packages, err, ret, historyVars, started, notCacheVars>>

\* Line 128: the mutex is taken again.
GetPackagesLock2(t) ==
    /\ At(t, "gpLock")
    /\ mutex = 0
    /\ mutex' = t
    /\ pc' = [pc EXCEPT ![t] = "gpStore"]
    /\ UNCHANGED <<repo, cachedPackages, refreshError, call, packages, err, fetch, ret,
                   historyVars, started, notCacheVars>>

\* The variant that stores the fetched list and leaves refreshError alone.
GetPackagesStoreListOnly(t) ==
    /\ At(t, "gpStore")
    /\ mutex = t
    /\ mutex' = 0
    /\ cachedPackages' = packages[t]
    /\ lastStore' = t
    /\ stores' = IF stores < MaxCalls THEN stores + 1 ELSE stores
    /\ ret' = [ret EXCEPT ![t] = getPackagesResult(err[t], packages[t], call[t].filter)]
    /\ pc' = [pc EXCEPT ![t] = "done"]
    /\ UNCHANGED <<repo, refreshError, call, packages, err, fetch, absorbed, deleted,
                   mustSee, mustNotSee, started, notCacheVars>>

\* Lines 129-138: list and error of this fetch are stored under the mutex,
\* then the call returns the local err of line 113 or the sorted view.
GetPackagesStore(t) ==
    /\ At(t, "gpStore")
    /\ mutex = t
    /\ mutex' = 0
    /\ cachedPackages' = packages[t]
    /\ refreshError' = fetch[t].err
    /\ lastStore' = t
    /\ stores' = IF stores < MaxCalls THEN stores + 1 ELSE stores
    /\ ret' = [ret EXCEPT ![t] = getPackagesResult(err[t], packages[t], call[t].filter)]
    /\ pc' = [pc EXCEPT ![t] = "done"]
    /\ UNCHANGED <<repo, call, packages, err, fetch, absorbed, deleted, mustSee, mustNotSee,
                   started, notCacheVars>>

\* cachedRepository.CreatePackageRevision / UpdatePackage (lines 170-194):
\* the backend opens a draft for the revision and the cache wraps it.  A
\* create needs the name to be free, an update needs the revision to exist.
OpenDraft(t, name, lc) ==
    /\ Begin(t)
    /\ call' = [call EXCEPT ![t] =
                   [NoCall EXCEPT !.op = IF repo[name] = Absent THEN "create" ELSE "update",
                                  !.closed = RepoRevision(name, lc)]]
    /\ pc' = [pc EXCEPT ![t] = "draftOpen"]
    /\ UNCHANGED <<cacheVars, packages, err, fetch, ret, historyVars, notCacheVars>>

\* Lines 171-174 and 185-188: the backend refuses to open the draft.
OpenDraftErr(t, name, e) ==
    /\ Begin(t)
    /\ call' = [call EXCEPT ![t] =
                   [NoCall EXCEPT !.op = IF repo[name] = Absent THEN "create" ELSE "update"]]
    /\ ret' = [ret EXCEPT ![t] = [list |-> NilSlice, err |-> e]]
    /\ pc' = [pc EXCEPT ![t] = "done"]
    /\ UNCHANGED <<cacheVars, packages, err, fetch, historyVars, notCacheVars>>

\* cachedDraft.Close, first half: the wrapped draft's Close commits the
\* revision in the backend.
DraftCloseOk(t) ==
    /\ At(t, "draftOpen")
    /\ repo' = [repo EXCEPT ![call[t].closed.name] = call[t].closed.lc]
    /\ deleted' = deleted \ {call[t].closed.name}
    /\ mustNotSee' = [u \in AllThreads |-> mustNotSee[u] \ {call[t].closed.name}]
    /\ pc' = [pc EXCEPT ![t] = "updLock"]
    /\ UNCHANGED <<cachedPackages, refreshError, mutex, call, packages, err, fetch, ret,
                   lastStore, stores, absorbed, mustSee, started, notCacheVars>>

\* cachedDraft.Close, the wrapped draft's Close fails: nothing is committed
\* and update() is not called.
DraftCloseErr(t, e) ==
    /\ At(t, "draftOpen")
    /\ ret' = [ret EXCEPT ![t] = [list |-> NilSlice, err |-> e]]
    /\ pc' = [pc EXCEPT ![t] = "done"]
    /\ UNCHANGED <<cacheVars, call, packages, err, fetch, historyVars, started, notCacheVars>>

\* update(), line 197: the mutex is taken.
UpdateLock(t) ==
    /\ At(t, "updLock")
    /\ mutex = 0
    /\ mutex' = t
    /\ pc' = [pc EXCEPT ![t] = "updBody"]
    /\ UNCHANGED <<repo, cachedPackages, refreshError, call, packages, err, fetch, ret,
                   historyVars, started, notCacheVars>>

\* update(), lines 200-204, and the deferred Unlock.
Update(t) ==
    /\ At(t, "updBody")
    /\ mutex = t
    /\ mutex' = 0
    /\ cachedPackages' = update(cachedPackages, call[t].closed)
    /\ lastStore' = 0
    /\ UNCHANGED stores
    /\ absorbed' = IF repo[call[t].closed.name] # Absent
                   THEN absorbed \cup {call[t].closed.name}
                   ELSE absorbed
    /\ ret' = [ret EXCEPT ![t] = NoRet]
    /\ pc' = [pc EXCEPT ![t] = "done"]
    /\ UNCHANGED <<repo, refreshError, call, packages, err, fetch, deleted, mustSee,
                   mustNotSee, started, notCacheVars>>

\* DeletePackageRevision, line 221: the backend deletes the revision.
DeleteBackendOk(t, name) ==
    /\ Begin(t)
    /\ repo[name] # Absent
    /\ repo' = [repo EXCEPT ![name] = Absent]
    /\ call' = [call EXCEPT ![t] =
                   [NoCall EXCEPT !.op = "delete", !.closed = RepoRevision(name, repo[name])]]
    /\ absorbed' = absorbed \ {name}
    /\ mustSee' = [u \in AllThreads |-> mustSee[u] \ {name}]
    /\ pc' = [pc EXCEPT ![t] = "delLock"]
    /\ UNCHANGED <<cachedPackages, refreshError, mutex, packages, err, fetch, ret,
                   lastStore, stores, deleted, mustNotSee, notCacheVars>>

\* DeletePackageRevision, lines 221-223: the backend's delete fails.
DeleteBackendErr(t, name, e) ==
    /\ Begin(t)
    /\ call' = [call EXCEPT ![t] = [NoCall EXCEPT !.op = "delete"]]
    /\ ret' = [ret EXCEPT ![t] = [list |-> NilSlice, err |-> e]]
    /\ pc' = [pc EXCEPT ![t] = "done"]
    /\ UNCHANGED <<cacheVars, packages, err, fetch, historyVars, notCacheVars>>

\* DeletePackageRevision, line 225: the mutex is taken.
DeleteLock(t) ==
    /\ At(t, "delLock")
    /\ mutex = 0
    /\ mutex' = t
    /\ pc' = [pc EXCEPT ![t] = "delFlush"]
    /\ UNCHANGED <<repo, cachedPackages, refreshError, call, packages, err, fetch, ret,
                   historyVars, started, notCacheVars>>

\* The variant that drops the stored error together with the list.
DeleteFlushClearsError(t) ==
    /\ At(t, "delFlush")
    /\ mutex = t
    /\ mutex' = 0
    /\ cachedPackages' = NilSlice
    /\ refreshError' = NoError
    /\ lastStore' = 0
    /\ UNCHANGED stores
    /\ deleted' = IF repo[call[t].closed.name] = Absent
                  THEN deleted \cup {call[t].closed.name}
                  ELSE deleted
    /\ ret' = [ret EXCEPT ![t] = NoRet]
    /\ pc' = [pc EXCEPT ![t] = "done"]
    /\ UNCHANGED <<repo, call, packages, err, fetch, absorbed, mustSee,
                   mustNotSee, started, notCacheVars>>

\* DeletePackageRevision, lines 227-230: the whole cached list is dropped.
DeleteFlush(t) ==
    /\ At(t, "delFlush")
    /\ mutex = t
    /\ mutex' = 0
    /\ cachedPackages' = NilSlice
    /\ lastStore' = 0
    /\ UNCHANGED stores
    /\ deleted' = IF repo[call[t].closed.name] = Absent
                  THEN deleted \cup {call[t].closed.name}
                  ELSE deleted
    /\ ret' = [ret EXCEPT ![t] = NoRet]
    /\ pc' = [pc EXCEPT ![t] = "done"]
    /\ UNCHANGED <<repo, refreshError, call, packages, err, fetch, absorbed, mustSee,
                   mustNotSee, started, notCacheVars>>

\* The caller has its result; the thread is free for its next call.
Finish(t) ==
    /\ pc[t] = "done"
    /\ pc' = [pc EXCEPT ![t] = "idle"]
    /\ call' = [call EXCEPT ![t] = NoCall]
    /\ packages' = [packages EXCEPT ![t] = NilSlice]
    /\ err' = [err EXCEPT ![t] = NoError]
    /\ fetch' = [fetch EXCEPT ![t] = NoFetch]
    /\ ret' = [ret EXCEPT ![t] = NoRet]
    /\ mustSee' = [mustSee EXCEPT ![t] = {}]
    /\ mustNotSee' = [mustNotSee EXCEPT ![t] = {}]
    /\ UNCHANGED <<cacheVars, lastStore, stores, absorbed, deleted, started, notCacheVars>>

(***************************************************************************)
(* The function list (getFunctions) and the background poller.             *)
(***************************************************************************)
\* What the backend's ListFunctions returns.
RepoFunctions == Slice(<<"fn1">>)

\* What the package operations and the histories hold: getFunctions, the
\* poller's loop and Close leave it alone.
packageVars == <<repo, cachedPackages, refreshError, packages, err, fetch, historyVars,
                 fnVars, engVars, viewVars>>

\* The variant that asks the backend without testing what it implements.
getFunctionsMissAlwaysAsks(t) == <<"gfFetch", ret[t]>>

\* getFunctions, lines 150-154, with functions nil: a backend that is no
\* FunctionRepository gives the empty list; any other is asked.  The first
\* component is the position, the second what is returned.
getFunctionsMiss(t) ==
    IF supportsFunctions
    THEN <<"gfFetch", ret[t]>>
    ELSE <<"done", [list |-> Slice(<< >>), err |-> NoError]>>

\* ListFunctions (lines 95-102) calls getFunctions(ctx, false), which takes
\* the mutex (line 145).
ListFunctions(t) ==
    /\ Begin(t)
    /\ mutex = 0
    /\ mutex' = t
    /\ pc' = [pc EXCEPT ![t] = "gfRead"]
    /\ call' = [call EXCEPT ![t] = [NoCall EXCEPT !.op = "getFunctions"]]
    /\ UNCHANGED <<packageVars, ret, cachedFunctions, functions, supportsFunctions, cancelled>>

\* getFunctions, lines 146-154 and 167: the cached list is read under the
\* mutex; a call that holds a list returns it.
GetFunctionsRead(t) ==
    /\ At(t, "gfRead")
    /\ mutex = t
    /\ mutex' = 0
    /\ IF ~cachedFunctions.nil
       THEN /\ pc' = [pc EXCEPT ![t] = "done"]
            /\ ret' = [ret EXCEPT ![t] = [list |-> cachedFunctions, err |-> NoError]]
       ELSE /\ pc' = [pc EXCEPT ![t] = getFunctionsMiss(t)[1]]
            /\ ret' = [ret EXCEPT ![t] = getFunctionsMiss(t)[2]]
    /\ UNCHANGED <<packageVars, call, started, cachedFunctions, functions, supportsFunctions,
                   cancelled>>

\* getFunctions, lines 156-160: the backend's ListFunctions succeeds.
GetFunctionsFetchOk(t) ==
    /\ At(t, "gfFetch")
    /\ functions' = [functions EXCEPT ![t] = RepoFunctions]
    /\ pc' = [pc EXCEPT ![t] = "gfLock"]
    /\ UNCHANGED <<packageVars, mutex, call, ret, started, cachedFunctions, supportsFunctions,
                   cancelled>>

\* getFunctions, lines 156-157: the backend's ListFunctions fails and
\* getFunctions returns the error.
GetFunctionsFetchErr(t, e) ==
    /\ At(t, "gfFetch")
    /\ ret' = [ret EXCEPT ![t] = [list |-> NilSlice, err |-> e]]
    /\ pc' = [pc EXCEPT ![t] = "done"]
    /\ UNCHANGED <<packageVars, mutex, call, started, pollVars>>

\* getFunctions, line 162: the mutex is taken.
GetFunctionsLock2(t) ==
    /\ At(t, "gfLock")
    /\ mutex = 0
    /\ mutex' = t
    /\ pc' = [pc EXCEPT ![t] = "gfStore"]
    /\ UNCHANGED <<packageVars, call, ret, started, pollVars>>

\* getFunctions, lines 163-167: the fetched list is stored under the mutex
\* and returned.
GetFunctionsStore(t) ==
    /\ At(t, "gfStore")
    /\ mutex = t
    /\ mutex' = 0
    /\ cachedFunctions' = functions[t]
    /\ ret' = [ret EXCEPT ![t] = [list |-> functions[t], err |-> NoError]]
    /\ functions' = [functions EXCEPT ![t] = NilSlice]
    /\ pc' = [pc EXCEPT ![t] = "done"]
    /\ UNCHANGED <<packageVars, call, started, supportsFunctions, cancelled>>

\* Close (lines 233-236): the poller's context is cancelled.
Close(t) ==
    /\ Begin(t)
    /\ cancelled' = TRUE
    /\ call' = [call EXCEPT ![t] = [NoCall EXCEPT !.op = "Close"]]
    /\ pc' = [pc EXCEPT ![t] = "done"]
    /\ UNCHANGED <<packageVars, mutex, ret, cachedFunctions, functions, supportsFunctions>>

\* pollForever, lines 243-245: the select takes the ticker's case.  A tick
\* can be pending whether or not the context is cancelled.
PollTick ==
    /\ At(Poller, "select")
    /\ pc' = [pc EXCEPT ![Poller] = "pollOnce"]
    /\ UNCHANGED <<packageVars, mutex, call, ret, started, pollVars>>

\* The variant whose select tests the context the wrong way round.
PollExitUnlessCancelled ==
    /\ At(Poller, "select")
    /\ ~cancelled
    /\ pc' = [pc EXCEPT ![Poller] = "exited"]
    /\ UNCHANGED <<packageVars, mutex, call, ret, started, pollVars>>

\* pollForever, lines 247-249: the select takes the case of the cancelled
\* context and the goroutine returns.
PollExit ==
    /\ At(Poller, "select")
    /\ cancelled
    /\ pc' = [pc EXCEPT ![Poller] = "exited"]
    /\ UNCHANGED <<packageVars, mutex, call, ret, started, pollVars>>

\* pollOnce, line 259: getPackages(ctx, filter{}, true) is called and takes
\* the mutex (line 111).
PollGetPackages ==
    /\ At(Poller, "pollOnce")
    /\ mutex = 0
    /\ mutex' = Poller
    /\ pc' = [pc EXCEPT ![Poller] = "gpRead"]
    /\ call' = [call EXCEPT ![Poller] = [NoCall EXCEPT !.op = "getPackages", !.force = TRUE]]
    /\ UNCHANGED <<packageVars, ret, started, pollVars>>

\* pollOnce, lines 259-262: getPackages has returned (its error is logged);
\* getFunctions(ctx, true) is called with functions nil (lines 142-150).
PollGetFunctions ==
    /\ pc[Poller] = "done"
    /\ call[Poller].op = "getPackages"
    /\ call' = [call EXCEPT ![Poller] = [NoCall EXCEPT !.op = "getFunctions", !.force = TRUE]]
    /\ pc' = [pc EXCEPT ![Poller] = getFunctionsMiss(Poller)[1]]
    /\ ret' = [ret EXCEPT ![Poller] = IF supportsFunctions THEN NoRet
                                      ELSE getFunctionsMiss(Poller)[2]]
    /\ packages' = [packages EXCEPT ![Poller] = NilSlice]
    /\ err' = [err EXCEPT ![Poller] = NoError]
    /\ fetch' = [fetch EXCEPT ![Poller] = NoFetch]
    /\ UNCHANGED <<repo, cachedPackages, refreshError, historyVars, fnVars, engVars,
                   mutex, started, pollVars, viewVars>>

\* pollOnce, lines 262-265: getFunctions has returned (its error is logged)
\* and pollOnce returns to the select.
PollOnceEnd ==
    /\ pc[Poller] = "done"
    /\ call[Poller].op = "getFunctions"
    /\ pc' = [pc EXCEPT ![Poller] = "select"]
    /\ call' = [call EXCEPT ![Poller] = NoCall]
    /\ ret' = [ret EXCEPT ![Poller] = NoRet]
    /\ UNCHANGED <<packageVars, mutex, started, pollVars>>

\* The steps of a getPackages or getFunctions call on its way.
GetStep(t) ==
    \/ GetPackagesRead(t)
    \/ \E e \in Errors : GetPackagesFetchErr(t, e)
    \/ GetPackagesFetchOk(t)
    \/ GetPackagesLock2(t)
    \/ GetPackagesStore(t)
    \/ GetFunctionsRead(t)
    \/ GetFunctionsFetchOk(t)
    \/ \E e \in Errors : GetFunctionsFetchErr(t, e)
    \/ GetFunctionsLock2(t)
    \/ GetFunctionsStore(t)

\* The poller's steps through a poll cycle once its tick has been taken.
PollerStep ==
    \/ PollGetPackages
    \/ PollGetFunctions
    \/ PollOnceEnd
    \/ GetStep(Poller)

\* A caller's steps after its call has begun.
ClientStep(t) == GetStep(t) \/ Finish(t)

\* The poller, and callers of ListFunctions and Close.
PollNext ==
    \/ \E t \in Threads : ListFunctions(t)
    \/ \E t \in Threads : Close(t)
    \/ PollTick
    \/ PollExit
    \/ PollGetPackages
    \/ PollGetFunctions
    \/ PollOnceEnd
    \/ \E t \in AllThreads : GetPackagesRead(t)
    \/ \E t \in AllThreads : GetPackagesFetchOk(t)
    \/ \E t \in AllThreads, e \in Errors : GetPackagesFetchErr(t, e)
    \/ \E t \in AllThreads : GetPackagesLock2(t)
    \/ \E t \in AllThreads : GetPackagesStore(t)
    \/ \E t \in AllThreads : GetFunctionsRead(t)
    \/ \E t \in AllThreads : GetFunctionsFetchOk(t)
    \/ \E t \in AllThreads, e \in Errors : GetFunctionsFetchErr(t, e)
    \/ \E t \in AllThreads : GetFunctionsLock2(t)
    \/ \E t \in AllThreads : GetFunctionsStore(t)
    \/ \E t \in Threads : Finish(t)

\* newRepository (lines 71-82) over a backend that holds n1 and is, or is
\* not, a FunctionRepository.
PollStart ==
    /\ repo = [n \in RepoNames |-> IF n = "n1" THEN Published ELSE Absent]
    /\ cachedPackages = NilSlice
    /\ refreshError = NoError
    /\ cachedFunctions = NilSlice
    /\ supportsFunctions \in BOOLEAN
    /\ ThreadsQuiet

SpecFilters == {MatchAll}

Next ==
    \/ \E t \in Threads, filter \in SpecFilters : ListPackageRevisions(t, filter)
    \/ \E t \in Threads : ForceRefresh(t)
    \/ \E t \in Threads : GetPackagesRead(t)
    \/ \E t \in Threads : GetPackagesFetchOk(t)
    \/ \E t \in Threads, e \in Errors : GetPackagesFetchErr(t, e)
    \/ \E t \in Threads : GetPackagesLock2(t)
    \/ \E t \in Threads : GetPackagesStore(t)
    \/ \E t \in Threads, name \in RepoNames, lc \in RepoLifecycles : OpenDraft(t, name, lc)
    \/ \E t \in Threads, name \in RepoNames, e \in Errors : OpenDraftErr(t, name, e)
    \/ \E t \in Threads : DraftCloseOk(t)
    \/ \E t \in Threads, e \in Errors : DraftCloseErr(t, e)
    \/ \E t \in Threads : UpdateLock(t)
    \/ \E t \in Threads : Update(t)
    \/ \E t \in Threads, name \in RepoNames : DeleteBackendOk(t, name)
    \/ \E t \in Threads, name \in RepoNames, e \in Errors : DeleteBackendErr(t, name, e)
    \/ \E t \in Threads : DeleteLock(t)
    \/ \E t \in Threads : DeleteFlush(t)
    \/ \E t \in Threads : Finish(t)

FnQuiet ==
    /\ fnList = NilSlice
    /\ fnOp = NoOp
    /\ fnOut = << >>

CacheQuiet ==
    /\ CacheInit
    /\ repo = [n \in RepoNames |-> Absent]

(***************************************************************************)
(* The CaD engine (package engine): one request drives one draft.          *)
(***************************************************************************)
MaxTasks == 2

TaskTypeClone == "clone"

TaskTypePatch == "patch"

TaskTypeEval == "eval"

\* A task's payload of its own type (task.Clone, task.Patch, task.Eval):
\* NilPayload when the pointer is nil.
NilPayload == "nil"

Task(type, payload) == [Type |-> type, payload |-> payload]

\* The tasks of the requests; "bogus" is a type the engine does not know.
Tasks ==
    { Task(TaskTypeClone, "a"), Task(TaskTypeClone, "b"), Task(TaskTypeClone, NilPayload),
      Task(TaskTypeEval, "a"), Task(TaskTypeEval, "b"),
      Task(TaskTypePatch, "a"), Task("bogus", "a") }

TaskLists == UNION { [1..n -> Tasks] : n \in 0..MaxTasks }

\* PackageResources.Contents: a map of file paths to file contents.
Paths == {"a", "b", "c"}

Values == {"1", "2", "3"}

FileMaps == UNION { [S -> Values] : S \in SUBSET Paths }

\* repository.PackageResources{}
EmptyResources == [p \in {} |-> ""]

\* The mutations of package engine.
Mutation(kind, task) == [kind |-> kind, task |-> task]

NoTask == Task("", NilPayload)

renderPackageMutation == Mutation("renderPackageMutation", NoTask)

\* The rejections of an operation the engine does not support.
Unsupported ==
    { "clone not set for task", "patch not set for task", "eval not set for task",
      "patch not supported on create", "task type not supported",
      "adding/removing tasks is not yet supported",
      "changing task types is not yet supported",
      "clone only supported as first task", "updating task type not supported" }

Rejected(e) == [err |-> e, mutations |-> << >>]

\* The variant whose switch has no default case: a task of a type it does
\* not know is passed over.
RECURSIVE createMutationsSkipUnknown(_, _, _)
createMutationsSkipUnknown(tasks, i, mutations) ==
    IF i > Len(tasks)
    THEN [err |-> NoError, mutations |-> Append(mutations, renderPackageMutation)]
    ELSE LET task == tasks[i] IN
         CASE task.Type = TaskTypeClone ->
                  IF task.payload = NilPayload
                  THEN Rejected("clone not set for task")
                  ELSE createMutationsSkipUnknown(tasks, i + 1,
                           Append(mutations, Mutation("clonePackageMutation", task)))
           [] task.Type = TaskTypePatch ->
                  IF task.payload = NilPayload
                  THEN Rejected("patch not set for task")
                  ELSE Rejected("patch not supported on create")
           [] task.Type = TaskTypeEval ->
                  IF task.payload = NilPayload
                  THEN Rejected("eval not set for task")
                  ELSE createMutationsSkipUnknown(tasks, i + 1,
                           Append(mutations, Mutation("evalFunctionMutation", task)))
           [] OTHER -> createMutationsSkipUnknown(tasks, i + 1, mutations)

\* CreatePackageRevision, lines 437-475: one mutation per task, then Render.
RECURSIVE createMutations(_, _, _)
createMutations(tasks, i, mutations) ==
    IF i > Len(tasks)
    THEN [err |-> NoError, mutations |-> Append(mutations, renderPackageMutation)]
    ELSE LET task == tasks[i] IN
         CASE task.Type = TaskTypeClone ->
                  IF task.payload = NilPayload
                  THEN Rejected("clone not set for task")
                  ELSE createMutations(tasks, i + 1,
                           Append(mutations, Mutation("clonePackageMutation", task)))
           [] task.Type = TaskTypePatch ->
                  IF task.payload = NilPayload
                  THEN Rejected("patch not set for task")
                  ELSE Rejected("patch not supported on create")
           [] task.Type = TaskTypeEval ->
                  IF task.payload = NilPayload
                  THEN Rejected("eval not set for task")
                  ELSE createMutations(tasks, i + 1,
                           Append(mutations, Mutation("evalFunctionMutation", task)))
           [] OTHER -> Rejected("task type not supported")

\* The variant that takes a changed Clone at any index.
RECURSIVE updateMutationsAnyIndex(_, _, _, _)
updateMutationsAnyIndex(oldTasks, newTasks, i, mutations) ==
    IF i > Len(oldTasks)
    THEN [err |-> NoError, mutations |-> Append(mutations, renderPackageMutation)]
    ELSE LET oldTask == oldTasks[i]
             newTask == newTasks[i]
         IN  IF oldTask.Type # newTask.Type
             THEN Rejected("changing task types is not yet supported")
             ELSE IF oldTask = newTask
             THEN updateMutationsAnyIndex(oldTasks, newTasks, i + 1, mutations)
             ELSE IF newTask.Type = TaskTypeClone
             THEN IF newTask.payload = NilPayload
                  THEN Rejected("clone not set for task")
                  ELSE updateMutationsAnyIndex(oldTasks, newTasks, i + 1,
                           Append(mutations, Mutation("updatePackageMutation", newTask)))
             ELSE Rejected("updating task type not supported")

\* UpdatePackageRevision, lines 493-527: the loop over the task pairs, then
\* Render.
RECURSIVE updateMutationsFrom(_, _, _, _)
updateMutationsFrom(oldTasks, newTasks, i, mutations) ==
    IF i > Len(oldTasks)
    THEN [err |-> NoError, mutations |-> Append(mutations, renderPackageMutation)]
    ELSE LET oldTask == oldTasks[i]
             newTask == newTasks[i]
         IN  IF oldTask.Type # newTask.Type
             THEN Rejected("changing task types is not yet supported")
             ELSE IF oldTask = newTask
             THEN updateMutationsFrom(oldTasks, newTasks, i + 1, mutations)
             ELSE IF newTask.Type = TaskTypeClone
             THEN IF newTask.payload = NilPayload
                  THEN Rejected("clone not set for task")
                  ELSE IF i # 1
                  THEN Rejected("clone only supported as first task")
                  ELSE updateMutationsFrom(oldTasks, newTasks, i + 1,
                           Append(mutations, Mutation("updatePackageMutation", newTask)))
             ELSE Rejected("updating task type not supported")

\* UpdatePackageRevision, lines 488-527.
updateMutations(oldTasks, newTasks) ==
    IF Len(oldTasks) # Len(newTasks)
    THEN Rejected("adding/removing tasks is not yet supported")
    ELSE updateMutationsFrom(oldTasks, newTasks, 1, << >>)

\* The orders in which a range over a map can visit the keys S.
Orders(S) ==
    { o \in [1..Cardinality(S) -> S] : \A i, j \in 1..Cardinality(S) : o[i] = o[j] => i = j }

RECURSIVE SelectPaths(_, _, _)
SelectPaths(order, i, keep) ==
    IF i > Len(order) THEN << >>
    ELSE (IF order[i] \in keep THEN <<order[i]>> ELSE << >>) \o SelectPaths(order, i + 1, keep)

\* The variant that lists the new and the changed paths only.
replaceResourcesNoRemoved(old, new, newOrder, oldOrder) ==
    LET changed == { k \in DOMAIN new : k \notin DOMAIN old \/ new[k] # old[k] }
    IN  [resources |-> new,
         task |-> [Type |-> "patch", payload |-> SelectPaths(newOrder, 1, changed)]]

\* mutationReplaceResources.Apply (lines 758-783), the ranges visiting the
\* keys of new in newOrder and the keys of old in oldOrder.
replaceResources(old, new, newOrder, oldOrder) ==
    LET changed == { k \in DOMAIN new : k \notin DOMAIN old \/ new[k] # old[k] }
        removed == { k \in DOMAIN old : k \notin DOMAIN new }
    IN  [resources |-> new,
         task |-> [Type |-> "patch",
                   payload |-> SelectPaths(newOrder, 1, changed)
                                   \o SelectPaths(oldOrder, 1, removed)]]

\* The file a mutation that runs outside this package writes.
Writes ==
    ("clonePackageMutation" :> "Kptfile") @@ ("updatePackageMutation" :> "Kptfile")
        @@ ("evalFunctionMutation" :> "fn") @@ ("renderPackageMutation" :> "rendered")

\* The outcome of a successful Apply of a mutation that runs a function, a
\* renderer or an upstream pull: the snapshot with that file written.
externalApply(m, resources) ==
    [resources |-> [p \in DOMAIN resources \cup {Writes[m.kind]} |->
                       IF p = Writes[m.kind] THEN m.kind ELSE resources[p]],
     task |-> IF m.kind = "renderPackageMutation" THEN Task("render", NilPayload) ELSE m.task]

NoRequest == [op |-> "none", name |-> "", oldTasks |-> << >>, tasks |-> << >>,
              newResources |-> EmptyResources]

NoDraft == [opened |-> FALSE, resources |-> EmptyResources, tasks |-> << >>, closed |-> FALSE]

NoApplied == [resources |-> EmptyResources, task |-> NoTask]

\* A call the request made: on the repository, a mutation or the draft.
Called(op, i, resources, task, e) ==
    [op |-> op, i |-> i, resources |-> resources, task |-> task, err |-> e]

EngQuiet ==
    /\ engPc = "idle"
    /\ engReq = NoRequest
    /\ engMutations = << >>
    /\ engIdx = 0
    /\ engBase = EmptyResources
    /\ engApplied = NoApplied
    /\ engDraft = NoDraft
    /\ engRet = NoError
    /\ engContents = [n \in RepoNames |-> EmptyResources]
    /\ engLog = << >>
    /\ engBefore = [repo |-> [n \in RepoNames |-> Absent], cachedPackages |-> NilSlice,
                    contents |-> [n \in RepoNames |-> EmptyResources]]

\* The backend holds n1; the cache has loaded the list, or not yet.
EngineStart ==
    /\ repo = [n \in RepoNames |-> IF n = "n1" THEN Published ELSE Absent]
    /\ cachedPackages \in {NilSlice, Slice(toCachedPackageRevisionSlice(repoList(repo, 1)))}
    /\ refreshError = NoError
    /\ engPc = "idle"
    /\ engReq = NoRequest
    /\ engMutations = << >>
    /\ engIdx = 0
    /\ engBase = EmptyResources
    /\ engApplied = NoApplied
    /\ engDraft = NoDraft
    /\ engRet = NoError
    /\ engContents = [n \in RepoNames |-> IF n = "n1" THEN ("a" :> "1") @@ ("b" :> "2")
                                          ELSE EmptyResources]
    /\ engLog = << >>
    /\ engBefore = [repo |-> repo, cachedPackages |-> cachedPackages,
                    contents |-> engContents]

\* As EngineStart, the committed revision n1 holding any file map.
ResourcesStart ==
    /\ repo = [n \in RepoNames |-> IF n = "n1" THEN Published ELSE Absent]
    /\ cachedPackages \in {NilSlice, Slice(toCachedPackageRevisionSlice(repoList(repo, 1)))}
    /\ refreshError = NoError
    /\ engPc = "idle"
    /\ engReq = NoRequest
    /\ engMutations = << >>
    /\ engIdx = 0
    /\ engBase = EmptyResources
    /\ engApplied = NoApplied
    /\ engDraft = NoDraft
    /\ engRet = NoError
    /\ \E old \in FileMaps :
           engContents = [n \in RepoNames |-> IF n = "n1" THEN old ELSE EmptyResources]
    /\ engLog = << >>
    /\ engBefore = [repo |-> repo, cachedPackages |-> cachedPackages,
                    contents |-> engContents]

notEngVars == <<fnVars, cacheVars, threadVars, historyVars, pollVars, viewVars>>

\* The request is received.
Receive(req) ==
    /\ engPc = "idle"
    /\ engReq' = req
    /\ engBefore' = [repo |-> repo, cachedPackages |-> cachedPackages,
                     contents |-> engContents]

\* The request returns e.
Return(e) ==
    /\ engPc' = "returned"
    /\ engRet' = e

\* Lines 428-431, 483-486, 559-562: cad.cache.OpenRepository fails.
OpenRepositoryErr(op, name, e) ==
    /\ Receive([NoRequest EXCEPT !.op = op, !.name = name])
    /\ Return(e)
    /\ UNCHANGED <<engMutations, engIdx, engBase, engApplied, engDraft, engContents,
                   engLog, notEngVars>>

\* cadEngine.CreatePackageRevision, lines 432-479: the repository opens the
\* draft, then the tasks are turned into mutations.
CreatePackageRevision(name, tasks) ==
    /\ repo[name] = Absent
    /\ Receive([NoRequest EXCEPT !.op = "create", !.name = name, !.tasks = tasks])
    /\ engDraft' = [NoDraft EXCEPT !.opened = TRUE]
    /\ engLog' = <<Called("CreatePackageRevision", 0, EmptyResources, NoTask, NoError)>>
    /\ LET built == createMutations(tasks, 1, << >>) IN
       IF built.err # NoError
       THEN /\ Return(built.err)
            /\ UNCHANGED <<engMutations, engIdx, engBase>>
       ELSE /\ engMutations' = built.mutations
            /\ engBase' = EmptyResources
            /\ engIdx' = 1
            /\ engPc' = "apply"
            /\ UNCHANGED engRet
    /\ UNCHANGED <<engApplied, engContents, notEngVars>>

\* cadEngine.CreatePackageRevision, lines 432-435: the repository refuses
\* to open the draft.
CreatePackageRevisionErr(name, tasks, e) ==
    /\ Receive([NoRequest EXCEPT !.op = "create", !.name = name, !.tasks = tasks])
    /\ engLog' = <<Called("CreatePackageRevision", 0, EmptyResources, NoTask, e)>>
    /\ Return(e)
    /\ UNCHANGED <<engMutations, engIdx, engBase, engApplied, engDraft, engContents,
                   notEngVars>>

\* cadEngine.UpdatePackageRevision, lines 488-532: the task lists are
\* checked and turned into mutations, then the repository opens the draft.
UpdatePackageRevision(name, oldTasks, newTasks) ==
    /\ repo[name] # Absent
    /\ Receive([NoRequest EXCEPT !.op = "update", !.name = name,
                                 !.oldTasks = oldTasks, !.tasks = newTasks])
    /\ LET built == updateMutations(oldTasks, newTasks) IN
       IF built.err # NoError
       THEN /\ Return(built.err)
            /\ UNCHANGED <<engMutations, engDraft, engLog>>
       ELSE /\ engMutations' = built.mutations
            /\ engDraft' = [NoDraft EXCEPT !.opened = TRUE]
            /\ engLog' = <<Called("UpdatePackage", 0, EmptyResources, NoTask, NoError)>>
            /\ engPc' = "getResources"
            /\ UNCHANGED engRet
    /\ UNCHANGED <<engIdx, engBase, engApplied, engContents, notEngVars>>

\* cadEngine.UpdatePackageRevision, lines 529-532: the task lists pass and
\* the repository refuses to open the draft.
UpdatePackageRevisionErr(name, oldTasks, newTasks, e) ==
    /\ repo[name] # Absent
    /\ updateMutations(oldTasks, newTasks).err = NoError
    /\ Receive([NoRequest EXCEPT !.op = "update", !.name = name,
                                 !.oldTasks = oldTasks, !.tasks = newTasks])
    /\ engLog' = <<Called("UpdatePackage", 0, EmptyResources, NoTask, e)>>
    /\ Return(e)
    /\ UNCHANGED <<engMutations, engIdx, engBase, engApplied, engDraft, engContents,
                   notEngVars>>

\* cadEngine.UpdatePackageResources, lines 564-574: the repository opens
\* the draft; the one mutation is ReplaceResources.
UpdatePackageResources(name, new) ==
    /\ repo[name] # Absent
    /\ Receive([NoRequest EXCEPT !.op = "resources", !.name = name, !.newResources = new])
    /\ engMutations' = <<Mutation("mutationReplaceResources", NoTask)>>
    /\ engDraft' = [NoDraft EXCEPT !.opened = TRUE]
    /\ engLog' = <<Called("UpdatePackage", 0, EmptyResources, NoTask, NoError)>>
    /\ engPc' = "getResources"
    /\ UNCHANGED <<engIdx, engBase, engApplied, engRet, engContents, notEngVars>>

\* cadEngine.UpdatePackageResources, lines 564-567: the repository refuses
\* to open the draft.
UpdatePackageResourcesErr(name, new, e) ==
    /\ repo[name] # Absent
    /\ Receive([NoRequest EXCEPT !.op = "resources", !.name = name, !.newResources = new])
    /\ engLog' = <<Called("UpdatePackage", 0, EmptyResources, NoTask, e)>>
    /\ Return(e)
    /\ UNCHANGED <<engMutations, engIdx, engBase, engApplied, engDraft, engContents,
                   notEngVars>>

\* Lines 534-542 and 576-584: the old revision's resources are the base
\* snapshot of updateDraft.
GetResourcesOk ==
    /\ engPc = "getResources"
    /\ engBase' = engContents[engReq.name]
    /\ engIdx' = 1
    /\ engPc' = "apply"
    /\ UNCHANGED <<engReq, engMutations, engApplied, engDraft, engRet, engContents, engLog,
                   engBefore, notEngVars>>

\* Lines 534-537 and 576-579: the old revision's resources cannot be read.
GetResourcesErr ==
    /\ engPc = "getResources"
    /\ Return("cannot get package resources")
    /\ UNCHANGED <<engReq, engMutations, engIdx, engBase, engApplied, engDraft, engContents,
                   engLog, engBefore, notEngVars>>

\* updateDraft, line 589: Apply of the current mutation succeeds.
ApplyOk ==
    /\ engPc = "apply"
    /\ LET m == engMutations[engIdx] IN
       \E newOrder \in Orders(DOMAIN engReq.newResources), oldOrder \in Orders(DOMAIN engBase) :
           /\ engApplied' = IF m.kind = "mutationReplaceResources"
                            THEN replaceResources(engBase, engReq.newResources,
                                                  newOrder, oldOrder)
                            ELSE externalApply(m, engBase)
           /\ engLog' = Append(engLog, Called("Apply", engIdx, engBase, NoTask, NoError))
    /\ engPc' = "updateResources"
    /\ UNCHANGED <<engReq, engMutations, engIdx, engBase, engDraft, engRet, engContents,
                   engBefore, notEngVars>>

\* The variant of updateDraft that goes on to Close when Apply fails.
ApplyErrThenClose(e) ==
    /\ engPc = "apply"
    /\ engMutations[engIdx].kind # "mutationReplaceResources"
    /\ engLog' = Append(engLog, Called("Apply", engIdx, engBase, NoTask, e))
    /\ engPc' = "close"
    /\ UNCHANGED <<engReq, engMutations, engIdx, engBase, engApplied, engDraft, engRet,
                   engContents, engBefore, notEngVars>>

\* updateDraft, lines 589-592: Apply of the current mutation fails and
\* updateDraft returns its error.  ReplaceResources' Apply has no error
\* return (line 782).
ApplyErr(e) ==
    /\ engPc = "apply"
    /\ engMutations[engIdx].kind # "mutationReplaceResources"
    /\ engLog' = Append(engLog, Called("Apply", engIdx, engBase, NoTask, e))
    /\ Return(e)
    /\ UNCHANGED <<engReq, engMutations, engIdx, engBase, engApplied, engDraft, engContents,
                   engBefore, notEngVars>>

\* The variant of updateDraft that gives every Apply the base snapshot it
\* was called with.
UpdateResourcesOkKeepsBase ==
    /\ engPc = "updateResources"
    /\ engDraft' = [engDraft EXCEPT !.resources = engApplied.resources,
                                    !.tasks = Append(@, engApplied.task)]
    /\ engLog' = Append(engLog, Called("UpdateResources", engIdx, engApplied.resources,
                                       engApplied.task, NoError))
    /\ engIdx' = engIdx + 1
    /\ engPc' = IF engIdx + 1 > Len(engMutations) THEN "close" ELSE "apply"
    /\ UNCHANGED <<engReq, engMutations, engBase, engApplied, engRet, engContents, engBefore,
                   notEngVars>>

\* updateDraft, lines 593-600: the applied snapshot and its task are pushed
\* into the draft and become the base of the next mutation; after the last
\* mutation comes Close.
UpdateResourcesOk ==
    /\ engPc = "updateResources"
    /\ engDraft' = [engDraft EXCEPT !.resources = engApplied.resources,
                                    !.tasks = Append(@, engApplied.task)]
    /\ engLog' = Append(engLog, Called("UpdateResources", engIdx, engApplied.resources,
                                       engApplied.task, NoError))
    /\ engBase' = engApplied.resources
    /\ engIdx' = engIdx + 1
    /\ engPc' = IF engIdx + 1 > Len(engMutations) THEN "close" ELSE "apply"
    /\ UNCHANGED <<engReq, engMutations, engApplied, engRet, engContents, engBefore,
                   notEngVars>>

\* updateDraft, lines 593-599: the draft refuses the push and updateDraft
\* returns its error.
UpdateResourcesErr(e) ==
    /\ engPc = "updateResources"
    /\ engLog' = Append(engLog, Called("UpdateResources", engIdx, engApplied.resources,
                                       engApplied.task, e))
    /\ Return(e)
    /\ UNCHANGED <<engReq, engMutations, engIdx, engBase, engApplied, engDraft, engContents,
                   engBefore, notEngVars>>

\* updateDraft, line 604, on the cache's draft: the wrapped draft's Close
\* commits the revision with what was pushed, and the cache absorbs the
\* committed revision with update() (lines 196-205).
CloseOk ==
    /\ engPc = "close"
    /\ LET lc == IF engReq.op = "create" THEN Draft ELSE repo[engReq.name] IN
       /\ repo' = [repo EXCEPT ![engReq.name] = lc]
       /\ cachedPackages' = update(cachedPackages, RepoRevision(engReq.name, lc))
    /\ engContents' = [engContents EXCEPT ![engReq.name] = engDraft.resources]
    /\ engDraft' = [engDraft EXCEPT !.closed = TRUE]
    /\ engLog' = Append(engLog, Called("Close", 0, EmptyResources, NoTask, NoError))
    /\ Return(NoError)
    /\ UNCHANGED <<engReq, engMutations, engIdx, engBase, engApplied, engBefore,
                   fnVars, refreshError, mutex, threadVars, historyVars, pollVars,
                   viewVars>>

\* updateDraft, line 604: the wrapped draft's Close fails; nothing is
\* committed and the cache is not told.
CloseErr(e) ==
    /\ engPc = "close"
    /\ engLog' = Append(engLog, Called("Close", 0, EmptyResources, NoTask, e))
    /\ Return(e)
    /\ UNCHANGED <<engReq, engMutations, engIdx, engBase, engApplied, engDraft, engContents,
                   engBefore, notEngVars>>

\* Requests arrive while the engine is idle: what a request can be drawn
\* from.
Asked(S) == IF engPc = "idle" THEN S ELSE {}

EngineNext ==
    \/ \E op \in Asked({"create", "update", "resources"}), name \in RepoNames, e \in Errors :
           OpenRepositoryErr(op, name, e)
    \/ \E name \in Asked(RepoNames), tasks \in TaskLists : CreatePackageRevision(name, tasks)
    \/ \E name \in Asked(RepoNames), tasks \in TaskLists, e \in Errors :
           CreatePackageRevisionErr(name, tasks, e)
    \/ \E name \in Asked(RepoNames), oldTasks \in TaskLists, newTasks \in TaskLists :
           UpdatePackageRevision(name, oldTasks, newTasks)
    \/ \E name \in Asked(RepoNames), oldTasks \in TaskLists, newTasks \in TaskLists,
          e \in Errors :
           UpdatePackageRevisionErr(name, oldTasks, newTasks, e)
    \/ \E name \in Asked(RepoNames), new \in FileMaps : UpdatePackageResources(name, new)
    \/ \E name \in Asked(RepoNames), new \in FileMaps, e \in Errors :
           UpdatePackageResourcesErr(name, new, e)
    \/ GetResourcesOk
    \/ GetResourcesErr
    \/ ApplyOk
    \/ \E e \in Errors : ApplyErr(e)
    \/ UpdateResourcesOk
    \/ \E e \in Errors : UpdateResourcesErr(e)
    \/ CloseOk
    \/ \E e \in Errors : CloseErr(e)

\* The engine serving UpdatePackageResources requests only (Apply of
\* ReplaceResources has no error return, so ApplyErr has no part in it).
ResourcesNext ==
    \/ \E name \in Asked(RepoNames), e \in Errors : OpenRepositoryErr("resources", name, e)
    \/ \E name \in Asked(RepoNames), new \in FileMaps : UpdatePackageResources(name, new)
    \/ \E name \in Asked(RepoNames), new \in FileMaps, e \in Errors :
           UpdatePackageResourcesErr(name, new, e)
    \/ GetResourcesOk
    \/ GetResourcesErr
    \/ ApplyOk
    \/ UpdateResourcesOk
    \/ \E e \in Errors : UpdateResourcesErr(e)
    \/ CloseOk
    \/ \E e \in Errors : CloseErr(e)

Init == CacheInit /\ FnQuiet /\ EngQuiet

Spec == Init /\ [][Next]_vars

FnInit == FnStart /\ CacheQuiet /\ EngQuiet

SpecFn == FnInit /\ [][FnNext]_vars

EngineInit == EngineStart /\ FnQuiet /\ FunctionsInit /\ ThreadsQuiet

SpecEngine == EngineInit /\ [][EngineNext]_vars

PollInit == PollStart /\ FnQuiet /\ EngQuiet

\* Every operation of the cached repository together: the poller, and one
\* goroutine that makes calls of every kind while the poller runs.
Callers == {1}

Running == Callers \cup {Poller}

AllNext ==
    \/ \E t \in Callers, filter \in SpecFilters : ListPackageRevisions(t, filter)
    \/ \E t \in Callers : ForceRefresh(t)
    \/ \E t \in Callers : ListFunctions(t)
    \/ \E t \in Callers : Close(t)
    \/ \E t \in Callers, name \in RepoNames, lc \in RepoLifecycles : OpenDraft(t, name, lc)
    \/ \E t \in Callers, name \in RepoNames, e \in Errors : OpenDraftErr(t, name, e)
    \/ \E t \in Callers : DraftCloseOk(t)
    \/ \E t \in Callers, e \in Errors : DraftCloseErr(t, e)
    \/ \E t \in Callers : UpdateLock(t)
    \/ \E t \in Callers : Update(t)
    \/ \E t \in Callers, name \in RepoNames : DeleteBackendOk(t, name)
    \/ \E t \in Callers, name \in RepoNames, e \in Errors : DeleteBackendErr(t, name, e)
    \/ \E t \in Callers : DeleteLock(t)
    \/ \E t \in Callers : DeleteFlush(t)
    \/ \E t \in Callers : Finish(t)
    \/ PollTick
    \/ PollExit
    \/ PollGetPackages
    \/ PollGetFunctions
    \/ PollOnceEnd
    \/ \E t \in Running : GetPackagesRead(t)
    \/ \E t \in Running : GetPackagesFetchOk(t)
    \/ \E t \in Running, e \in Errors : GetPackagesFetchErr(t, e)
    \/ \E t \in Running : GetPackagesLock2(t)
    \/ \E t \in Running : GetPackagesStore(t)
    \/ \E t \in Running : GetFunctionsRead(t)
    \/ \E t \in Running : GetFunctionsFetchOk(t)
    \/ \E t \in Running, e \in Errors : GetFunctionsFetchErr(t, e)
    \/ \E t \in Running : GetFunctionsLock2(t)
    \/ \E t \in Running : GetFunctionsStore(t)

SpecAll == Init /\ [][AllNext]_vars

SpecPoll == PollInit /\ [][PollNext]_vars

\* The same under the scheduling the Go runtime gives.  A runnable goroutine
\* runs (weak fairness of each caller's steps); sync.Mutex hands the lock to
\* a goroutine that keeps waiting for it (strong fairness of the poller's
\* steps, which include its Lock calls); and a select with several ready
\* cases picks among them at random, so a case that is ready at every visit
\* of the select is taken (strong fairness of PollExit).
FairSpecPoll ==
    /\ PollInit
    /\ [][PollNext]_vars
    /\ \A t \in Threads : WF_vars(ClientStep(t))
    /\ SF_vars(PollerStep)
    /\ SF_vars(PollExit)

ResourcesInit == ResourcesStart /\ FnQuiet /\ FunctionsInit /\ ThreadsQuiet

SpecResources == ResourcesInit /\ [][ResourcesNext]_vars

(***************************************************************************)
(* The cached list as Go holds it.  r.cachedPackages is a slice header     *)
(* over a backing array of pointers to cachedPackageRevision objects;      *)
(* getPackages copies the header under the mutex and reads the array       *)
(* after releasing it; the list it returns is a fresh slice of the same    *)
(* pointers; update() writes the array and the objects' flags in place.    *)
(***************************************************************************)
MaxObjects == 4

MaxArrays == 3

notViewVars == <<fnVars, engVars, pollVars, threadVars, historyVars, cachedPackages>>

\* The capacity of a slice and the pointers it holds.
Cap(h) == IF h.arr = 0 THEN 0 ELSE Len(heapArrays[h.arr])

Elems(h) == IF h.arr = 0 THEN << >> ELSE SubSeq(heapArrays[h.arr], 1, h.len)

\* The objects behind a list of pointers, each with its pointer.
Tagged(ptrs) ==
    [i \in 1..Len(ptrs) |->
        [pr |-> heapObjects[ptrs[i]].pr,
         isLatestRevision |-> heapObjects[ptrs[i]].isLatestRevision,
         ptr |-> ptrs[i]]]

Ptrs(tagged) == [i \in 1..Len(tagged) |-> tagged[i].ptr]

Zeros(n) == [i \in 1..n |-> 0]

\* getPackages, lines 111-119: under the mutex the slice header and the
\* error are copied; a forced call drops the header.
ViewRead(forceRefresh) ==
    /\ viewPc[Reader] = "idle"
    /\ mutex = 0
    /\ viewLocal' = IF forceRefresh
                    THEN [NoLocal EXCEPT !.err = refreshError]
                    ELSE [NoLocal EXCEPT !.arr = cachedRef.arr, !.len = cachedRef.len,
                                         !.err = refreshError]
    /\ viewPc' = [viewPc EXCEPT ![Reader] =
                     IF forceRefresh \/ cachedRef.arr = 0 THEN "fetch" ELSE "build"]
    /\ UNCHANGED <<repo, refreshError, mutex, heapObjects, heapArrays, cachedRef, view,
                   viewUpd, notViewVars>>

\* Lines 123-126, the fetch succeeds: toCachedPackageRevisionSlice makes a
\* new array of new objects, their flags computed before anyone else holds
\* them.
ViewFetchOk ==
    /\ viewPc[Reader] = "fetch"
    /\ LET fresh == toCachedPackageRevisionSlice(repoList(repo, 1)) IN
       /\ Len(heapObjects) + Len(fresh) <= MaxObjects
       /\ Len(heapArrays) < MaxArrays
       /\ heapObjects' = heapObjects \o fresh
       /\ heapArrays' = Append(heapArrays,
                               [i \in 1..Len(fresh) |-> Len(heapObjects) + i])
       /\ viewLocal' = [viewLocal EXCEPT !.arr = Len(heapArrays) + 1, !.len = Len(fresh)]
    /\ viewPc' = [viewPc EXCEPT ![Reader] = "store"]
    /\ UNCHANGED <<repo, refreshError, mutex, cachedRef, view, viewUpd, notViewVars>>

\* Line 123, the fetch fails: packages stays nil.
ViewFetchErr(e) ==
    /\ viewPc[Reader] = "fetch"
    /\ viewLocal' = [viewLocal EXCEPT !.fetchErr = e]
    /\ viewPc' = [viewPc EXCEPT ![Reader] = "store"]
    /\ UNCHANGED <<repo, refreshError, mutex, heapObjects, heapArrays, cachedRef, view,
                   viewUpd, notViewVars>>

\* Lines 128-131: under the mutex the header and the fetch's error are stored.
ViewStore ==
    /\ viewPc[Reader] = "store"
    /\ mutex = 0
    /\ cachedRef' = [arr |-> viewLocal.arr, len |-> viewLocal.len]
    /\ refreshError' = viewLocal.fetchErr
    /\ viewPc' = [viewPc EXCEPT ![Reader] = "build"]
    /\ UNCHANGED <<repo, mutex, heapObjects, heapArrays, viewLocal, view, viewUpd,
                   notViewVars>>

\* Lines 134-138, without the mutex: the error read at line 113 is returned,
\* or toPackageRevisionSlice reads the array behind packages and returns a
\* new slice of the pointers it holds, sorted.
ViewBuild ==
    /\ viewPc[Reader] = "build"
    /\ view' = IF viewLocal.err # NoError
               THEN [list |-> << >>, err |-> viewLocal.err]
               ELSE [list |-> Ptrs(toPackageRevisionSlice(Slice(Tagged(Elems(viewLocal))),
                                                          MatchAll)),
                     err |-> NoError]
    /\ viewPc' = [viewPc EXCEPT ![Reader] = "holding"]
    /\ UNCHANGED <<repo, refreshError, mutex, heapObjects, heapArrays, cachedRef,
                   viewLocal, viewUpd, notViewVars>>

\* The caller is done with the list it was given.
ViewRelease ==
    /\ viewPc[Reader] = "holding"
    /\ view' = NoView
    /\ viewLocal' = NoLocal
    /\ viewPc' = [viewPc EXCEPT ![Reader] = "idle"]
    /\ UNCHANGED <<repo, refreshError, mutex, heapObjects, heapArrays, cachedRef, viewUpd,
                   notViewVars>>

\* cachedDraft.Close, first half: the wrapped draft's Close commits the
\* revision in the backend; update(closed) follows.
ViewCommit(name) ==
    /\ viewPc[Writer] = "idle"
    /\ Len(heapObjects) < MaxObjects
    /\ Len(heapArrays) < MaxArrays
    /\ repo' = [repo EXCEPT ![name] = Published]
    /\ viewUpd' = [NoUpd EXCEPT !.closed = RepoRevision(name, Published)]
    /\ viewPc' = [viewPc EXCEPT ![Writer] = "update"]
    /\ UNCHANGED <<refreshError, mutex, heapObjects, heapArrays, cachedRef, viewLocal, view,
                   notViewVars>>

\* update(), lines 197-200: the mutex is taken and the new object made.
ViewUpdateLock ==
    /\ viewPc[Writer] = "update"
    /\ mutex = 0
    /\ mutex' = Writer
    /\ heapObjects' = Append(heapObjects, cachedPackageRevision(viewUpd.closed, FALSE))
    /\ viewUpd' = [viewUpd EXCEPT !.new = Len(heapObjects) + 1]
    /\ viewPc' = [viewPc EXCEPT ![Writer] = "updateOrAppend"]
    /\ UNCHANGED <<repo, refreshError, heapArrays, cachedRef, viewLocal, view, notViewVars>>

\* update(), line 201, and updateOrAppend (lines 207-216): the slot of the
\* same name is overwritten in the backing array; or the pointer is
\* appended, into the array when it has room, into a new array of twice
\* the capacity (one for a nil slice) when it has none.
ViewUpdateOrAppend ==
    /\ viewPc[Writer] = "updateOrAppend"
    /\ mutex = Writer
    /\ LET old == Tagged(Elems(cachedRef))
           res == Ptrs(updateOrAppend(old, Tagged(<<viewUpd.new>>)[1]))
           rest == SubSeq(heapArrays[cachedRef.arr], cachedRef.len + 1, Cap(cachedRef))
       IN  IF Len(res) = Len(old)
           THEN /\ heapArrays' = [heapArrays EXCEPT ![cachedRef.arr] = res \o rest]
                /\ UNCHANGED cachedRef
           ELSE IF cachedRef.len < Cap(cachedRef)
           THEN /\ heapArrays' = [heapArrays EXCEPT ![cachedRef.arr] = res \o Tail(rest)]
                /\ cachedRef' = [cachedRef EXCEPT !.len = @ + 1]
           ELSE /\ heapArrays' =
                       Append(heapArrays,
                              res \o Zeros((IF Cap(cachedRef) = 0 THEN 1
                                            ELSE 2 * Cap(cachedRef)) - Len(res)))
                /\ cachedRef' = [arr |-> Len(heapArrays) + 1, len |-> Len(res)]
    /\ viewUpd' = [viewUpd EXCEPT !.i = 1]
    /\ viewPc' = [viewPc EXCEPT ![Writer] = "scan"]
    /\ UNCHANGED <<repo, refreshError, mutex, heapObjects, viewLocal, view, notViewVars>>

\* identifyLatestRevisions, one turn of the loop of lines 284-308: the
\* flag of the current object is cleared.  (What the turn does to the map
\* latest is a function of the keys and lifecycles scanned, which update()
\* does not write; it is computed when the loop has ended.)
ViewScan ==
    /\ viewPc[Writer] = "scan"
    /\ mutex = Writer
    /\ viewUpd.i <= cachedRef.len
    /\ heapObjects' = [heapObjects EXCEPT
                          ![Elems(cachedRef)[viewUpd.i]].isLatestRevision = FALSE]
    /\ viewUpd' = [viewUpd EXCEPT !.i = @ + 1]
    /\ UNCHANGED <<repo, refreshError, mutex, heapArrays, cachedRef, viewPc, viewLocal, view,
                   notViewVars>>

\* identifyLatestRevisions, lines 310-313, and update()'s deferred Unlock:
\* the winners are flagged and the mutex released.
ViewMark ==
    /\ viewPc[Writer] = "scan"
    /\ mutex = Writer
    /\ viewUpd.i > cachedRef.len
    /\ LET result == Tagged(Elems(cachedRef))
           latest == latestScan(result, 1, << >>)
           winners == { result[latest[p]].ptr : p \in DOMAIN latest }
       IN  heapObjects' = [o \in 1..Len(heapObjects) |->
                              IF o \in winners
                              THEN [heapObjects[o] EXCEPT !.isLatestRevision = TRUE]
                              ELSE heapObjects[o]]
    /\ mutex' = 0
    /\ viewUpd' = NoUpd
    /\ viewPc' = [viewPc EXCEPT ![Writer] = "idle"]
    /\ UNCHANGED <<repo, refreshError, heapArrays, cachedRef, viewLocal, view, notViewVars>>

ViewNext ==
    \/ \E forceRefresh \in BOOLEAN : ViewRead(forceRefresh)
    \/ ViewFetchOk
    \/ \E e \in Errors : ViewFetchErr(e)
    \/ ViewStore
    \/ ViewBuild
    \/ ViewRelease
    \/ \E name \in RepoNames : ViewCommit(name)
    \/ ViewUpdateLock
    \/ ViewUpdateOrAppend
    \/ ViewScan
    \/ ViewMark

\* newRepository over a backend that holds n1, or n1 and n2.
ViewStart ==
    /\ repo \in { [n \in RepoNames |-> IF n \in S THEN Published ELSE Absent] :
                     S \in {{"n1"}, {"n1", "n2"}} }
    /\ cachedPackages = NilSlice
    /\ refreshError = NoError

ViewInit == ViewStart /\ FnQuiet /\ EngQuiet /\ FunctionsInit /\ ThreadsQuiet

SpecView == ViewInit /\ [][ViewNext]_vars

(***************************************************************************)
(* Claims on the list functions, checked under SpecFn.                     *)
(***************************************************************************)
PackagesOf(items) == { Key(items[i]).Package : i \in 1..Len(items) }

\* C1: after any load and any sequence of update() upserts, the cached list
\* holds for every package at most one revision flagged isLatestRevision;
\* the flagged one is Published, its revision string is a valid semantic
\* version, and it compares greatest (semver) among the Published revisions
\* of its package; a package with a Published, valid revision has one flagged.
C1_LatestUnique ==
    LET items == fnList.items
        ofPkg(p) == { i \in 1..Len(items) : Key(items[i]).Package = p }
        flagged(p) == { i \in ofPkg(p) : items[i].isLatestRevision }
        candidates(p) == { i \in ofPkg(p) : Lifecycle(items[i]) = Published }
    IN  \A p \in PackagesOf(items) :
            /\ Cardinality(flagged(p)) <= 1
            /\ \A i \in flagged(p) :
                   /\ i \in candidates(p)
                   /\ semverIsValid(Key(items[i]).Revision)
                   /\ \A j \in candidates(p) :
                          semverCompare(Key(items[i]).Revision, Key(items[j]).Revision) >= 0
            /\ (\E j \in candidates(p) : semverIsValid(Key(items[j]).Revision))
                   => flagged(p) # {}

\* C1's case: update() has run, foo's Published v1.2.0 is flagged while a
\* semantically greater foo revision (v1.10.0) is in the list as a Draft.
C1_Witness ==
    /\ fnOp.op = "update"
    /\ \E i, j \in 1..Len(fnList.items) :
           /\ fnList.items[i] =
                  cachedPackageRevision(PackageRevision("n1", "foo", "v1.2.0", Published), TRUE)
           /\ fnList.items[j] =
                  cachedPackageRevision(PackageRevision("n2", "foo", "v1.10.0", Draft), FALSE)

\* The listing order as a lexicographic order on the tuple of the four keys.
SortKey(c) ==
    <<Chars[Key(c).Package], Chars[Key(c).Revision], Chars[Lifecycle(c)],
      Chars[KubeObjectName(c)]>>

TupleBefore(a, b) ==
    \E k \in 1..4 :
        /\ \A m \in 1..(k - 1) : a[m] = b[m]
        /\ SeqCompare(a[k], b[k]) < 0

Permuted(items, f) == [i \in 1..Len(items) |-> items[f[i]]]

\* C9: a listing returns exactly the cached revisions matching the filter, in
\* ascending order of (Package, Revision as a raw string, Lifecycle as a
\* string, KubeObjectName), and the same sequence for every order in which
\* the cache could hold the same revisions.
C9_ListingSorted ==
    fnOp.op = "list" =>
        LET items == fnList.items
            matching == { i \in 1..Len(items) : Matches(fnOp.filter, items[i]) }
        IN  /\ Len(fnOut) = Cardinality(matching)
            /\ \A i \in matching : \E j \in 1..Len(fnOut) : fnOut[j] = items[i]
            /\ \A j \in 1..Len(fnOut) : \E i \in matching : fnOut[j] = items[i]
            /\ \A i, j \in 1..Len(fnOut) :
                   i < j => TupleBefore(SortKey(fnOut[i]), SortKey(fnOut[j]))
            /\ \A f \in Permutations(1..Len(items)) :
                   toPackageRevisionSlice(Slice(Permuted(items, f)), fnOp.filter) = fnOut

\* C9's case: a match-all listing of a cache held in an order other than the
\* listing order, with two foo revisions whose string order (v1.10.0 first)
\* is the reverse of their semantic order.
C9_Witness ==
    /\ fnOp.op = "list"
    /\ fnOp.filter = MatchAll
    /\ Len(fnOut) = MaxLen
    /\ fnOut # fnList.items
    /\ \E i \in 1..(Len(fnOut) - 1) :
           /\ Key(fnOut[i]).Revision = "v1.10.0"
           /\ Key(fnOut[i + 1]).Revision = "v1.2.0"

\* C10: update(closed) replaces the entry with closed's KubeObjectName in
\* place (same length, same position, every other entry kept) and appends
\* when no entry has that name; afterwards exactly one entry has that name
\* and it holds closed; pairwise distinct names stay pairwise distinct.
C10_Upsert ==
    [][ fnOp'.op = "update" =>
          LET old == fnList.items
              new == fnList'.items
              closed == fnOp'.closed
              hits == { i \in 1..Len(old) : KubeObjectName(old[i]) = closed.name }
          IN  /\ hits # {} =>
                    /\ Len(new) = Len(old)
                    /\ \A i \in 1..Len(old) :
                           new[i].pr = (IF i \in hits THEN closed ELSE old[i].pr)
              /\ hits = {} =>
                    /\ Len(new) = Len(old) + 1
                    /\ new[Len(new)].pr = closed
                    /\ \A i \in 1..Len(old) : new[i].pr = old[i].pr
              /\ Cardinality({ i \in 1..Len(new) : KubeObjectName(new[i]) = closed.name }) = 1
              /\ \A i \in 1..Len(new) :
                     KubeObjectName(new[i]) = closed.name => new[i].pr = closed
              /\ DistinctNames([i \in 1..Len(new) |-> new[i].pr])
       ]_vars

\* C10's case: update(closed) found closed's name at the head of a longer
\* list and replaced it there (an appended entry would be the last one).
C10_Witness ==
    /\ fnOp.op = "update"
    /\ Len(fnList.items) >= 2
    /\ fnList.items[1].pr = fnOp.closed

(***************************************************************************)
(* Claims on the cached repository, checked under Spec.                    *)
(***************************************************************************)
NamesOf(items) == { KubeObjectName(items[i]) : i \in 1..Len(items) }

\* A thread's getPackages call has returned.
Returned(t) == pc[t] = "done" /\ call[t].op = "getPackages"

\* A thread's ListPackageRevisions call has returned.
Listed(t) == Returned(t) /\ ~call[t].force

\* C3: a getPackages call that had no usable cached list and whose backend
\* fetch failed returns that fetch's error, never a list, and leaves
\* cachedPackages nil with refreshError set to that error.
C3_FetchErrorReturned ==
    \A t \in Threads :
        (Returned(t) /\ fetch[t].done /\ fetch[t].err # NoError) =>
            /\ ret[t].err = fetch[t].err
            /\ ret[t].list.nil
            /\ cachedPackages.nil
            /\ refreshError = fetch[t].err

\* C4: a forced refresh that fails while cachedPackages holds a previously
\* loaded list (here: the list the same thread's earlier getPackages stored,
\* not written since) leaves that list in place, so that a following
\* listing serves it.
C4_FailedRefreshKeepsList ==
    [][ \A t \in Threads :
            ( /\ pc[t] = "gpStore"
              /\ pc'[t] = "done"
              /\ call[t].force
              /\ fetch[t].err # NoError
              /\ lastStore = t
              /\ ~cachedPackages.nil )
            => cachedPackages' = cachedPackages
      ]_vars

\* C6: whenever the cache was last written by a getPackages store, the pair
\* (cachedPackages, refreshError) is the outcome of the one fetch of the
\* thread that stored last: its wrapped list with no error, or nil with its
\* error; never the list of one fetch with the error of another.
C6_LastWriterWins ==
    \A t \in Threads :
        (lastStore = t /\ Returned(t) /\ fetch[t].done) =>
            /\ cachedPackages = packages[t]
            /\ refreshError = fetch[t].err
            /\ cachedPackages.nil <=> refreshError # NoError

\* C6's case: two forced refreshes overlapped (the second call ran on
\* thread 2 because thread 1 was busy), both have stored, thread 2 last and
\* with a fetched list, and both have completed.
C6_Witness ==
    /\ started = 2
    /\ stores = 2
    /\ lastStore = 2
    /\ pc[1] = "idle"
    /\ Returned(2)
    /\ call[2].force
    /\ ~cachedPackages.nil
    /\ cachedPackages.items # << >>

\* C7: a match-all ListPackageRevisions that begins after update() absorbed
\* a committed revision, and returns without error, contains that revision
\* unless it was deleted meanwhile.
C7_AbsorbedListed ==
    \A t \in Threads :
        (Listed(t) /\ call[t].filter = MatchAll /\ ret[t].err = NoError) =>
            mustSee[t] \subseteq NamesOf(ret[t].list.items)

\* C8: the ListPackageRevisions that follows a successful
\* DeletePackageRevision reloads the list from the backend and does not
\* return the deleted revision (unless it was committed again meanwhile).
C8_DeletedNotListed ==
    \A t \in Threads :
        (Listed(t) /\ mustNotSee[t] # {}) =>
            /\ fetch[t].done
            /\ ret[t].err = NoError => mustNotSee[t] \cap NamesOf(ret[t].list.items) = {}

(***************************************************************************)
(* Claims on the engine, checked under SpecEngine.                         *)
(***************************************************************************)
\* The calls of the request on mutations and draft that failed.
Failed == { j \in 1..Len(engLog) : engLog[j].err # NoError }

\* The listing a caller gets from a cache holding cached over a backend
\* holding r: the cached list, or the list loaded from the backend.
Observable(r, cached) ==
    toPackageRevisionSlice(IF cached.nil
                           THEN Slice(toCachedPackageRevisionSlice(repoList(r, 1)))
                           ELSE cached, MatchAll)

\* C2: when Apply or UpdateResources fails at a step of updateDraft, the
\* failed call is the last call of the request, Close is not called and the
\* draft stays unclosed, the request returns that call's error, and the
\* committed revisions, their resources and the listing observable through
\* the cache are what they were when the request began.
C2_FailedStepCommitsNothing ==
    \A j \in Failed :
        engLog[j].op \in {"Apply", "UpdateResources"} =>
            /\ j = Len(engLog)
            /\ engPc = "returned"
            /\ engRet = engLog[j].err
            /\ ~engDraft.closed
            /\ \A k \in 1..Len(engLog) : engLog[k].op # "Close"
            /\ repo = engBefore.repo
            /\ engContents = engBefore.contents
            /\ Observable(repo, cachedPackages)
                   = Observable(engBefore.repo, engBefore.cachedPackages)

\* C2's case: a step after the first fails, so the draft already holds what
\* the earlier steps pushed into it.
C2_Witness ==
    /\ engPc = "returned"
    /\ engLog # << >>
    /\ engLog[Len(engLog)].op \in {"Apply", "UpdateResources"}
    /\ engLog[Len(engLog)].err # NoError
    /\ engLog[Len(engLog)].i >= 2
    /\ engDraft.opened
    /\ engDraft.tasks # << >>
    /\ engDraft.resources # EmptyResources

\* C5: when CreatePackageRevision or UpdatePackageRevision returns the
\* rejection of an unsupported operation, the repository has not been asked
\* to open a draft and no draft is open.
C5_RejectedBeforeDraft ==
    (engPc = "returned" /\ engRet \in Unsupported) =>
        /\ ~engDraft.opened
        /\ engLog = << >>
        /\ repo = engBefore.repo
        /\ engContents = engBefore.contents

\* The type of a mutation.
KindOf(m) ==
    CASE m.kind = "clonePackageMutation" -> "Clone"
      [] m.kind = "evalFunctionMutation" -> "Eval"
      [] m.kind = "updatePackageMutation" -> "UpdateUpstream"
      [] m.kind = "renderPackageMutation" -> "Render"
      [] OTHER -> "ReplaceResources"

\* C12: a create request whose tasks are all Clone or Eval with the payload
\* set, once its draft is open, runs one mutation per task, of the task's
\* type and holding the task, in the order of the tasks, then one Render and
\* nothing else, and its first Apply is given the empty snapshot; a create
\* request with a Patch task or a task of an unknown type returns an error
\* and its draft is not closed.
C12_CreatePipeline ==
    engReq.op = "create" =>
        LET tasks == engReq.tasks
            n == Len(tasks)
            runnable == \A i \in 1..n :
                            /\ tasks[i].Type \in {TaskTypeClone, TaskTypeEval}
                            /\ tasks[i].payload # NilPayload
            refused == \E i \in 1..n : tasks[i].Type \notin {TaskTypeClone, TaskTypeEval}
        IN  /\ (runnable /\ engDraft.opened) =>
                    /\ Len(engMutations) = n + 1
                    /\ \A i \in 1..n :
                           /\ KindOf(engMutations[i]) =
                                  (IF tasks[i].Type = TaskTypeClone THEN "Clone" ELSE "Eval")
                           /\ engMutations[i].task = tasks[i]
                    /\ KindOf(engMutations[n + 1]) = "Render"
                    /\ \A j \in 1..Len(engLog) :
                           (engLog[j].op = "Apply" /\ engLog[j].i = 1) =>
                               engLog[j].resources = EmptyResources
                    /\ (engPc = "apply" /\ engIdx = 1) => engBase = EmptyResources
            /\ refused =>
                    /\ engPc = "returned"
                    /\ engRet # NoError
                    /\ ~engDraft.closed
                    /\ \A j \in 1..Len(engLog) : engLog[j].op # "Close"

\* C12's case: a create with a Clone and an Eval task has run Clone, Eval
\* and Render and has been committed.
C12_Witness ==
    /\ engReq.op = "create"
    /\ engReq.tasks = <<Task(TaskTypeClone, "a"), Task(TaskTypeEval, "b")>>
    /\ engPc = "returned"
    /\ engDraft.closed
    /\ Len(engDraft.tasks) = 3

\* What an update request does, given the task lists that are to be refused:
\* a refused request returns the rejection of an unsupported operation with
\* no draft opened; any other request is not rejected, and once its draft is
\* open its mutations are UpdateUpstream, holding the new task 0, exactly
\* when task 0 changed, then one Render and nothing else, and its first
\* Apply is given the resources the old revision held.
UpdatePipeline(refused(_, _)) ==
    engReq.op = "update" =>
        LET old == engReq.oldTasks
            new == engReq.tasks
            upstream == Len(old) >= 1 /\ old[1] # new[1]
        IN  /\ refused(old, new) =>
                    /\ engPc = "returned"
                    /\ engRet \in Unsupported
                    /\ ~engDraft.opened
            /\ ~refused(old, new) =>
                    /\ engRet \notin Unsupported
                    /\ engDraft.opened =>
                           /\ Len(engMutations) = (IF upstream THEN 2 ELSE 1)
                           /\ upstream =>
                                  /\ KindOf(engMutations[1]) = "UpdateUpstream"
                                  /\ engMutations[1].task = new[1]
                           /\ KindOf(engMutations[Len(engMutations)]) = "Render"
                           /\ \A j \in 1..Len(engLog) :
                                  (engLog[j].op = "Apply" /\ engLog[j].i = 1) =>
                                      engLog[j].resources = engBefore.contents[engReq.name]
                           /\ (engPc = "apply" /\ engIdx = 1) =>
                                  engBase = engBefore.contents[engReq.name]

\* The task lists C13 names: different lengths, different types at an
\* index, a changed task that is not a Clone, a changed Clone after index 0.
RefusedAsClaimed(old, new) ==
    \/ Len(old) # Len(new)
    \/ \E i \in 1..Len(old) :
           \/ old[i].Type # new[i].Type
           \/ old[i] # new[i] /\ new[i].Type # TaskTypeClone
           \/ old[i] # new[i] /\ new[i].Type = TaskTypeClone /\ i # 1

\* The same, and a changed Clone whose payload is not set.
RefusedAmended(old, new) ==
    \/ RefusedAsClaimed(old, new)
    \/ \E i \in 1..Len(old) :
           old[i] # new[i] /\ new[i].Type = TaskTypeClone /\ new[i].payload = NilPayload

\* C13 as stated: UpdatePackageRevision refuses exactly the task lists that
\* differ in length, differ in type at an index, hold a changed task that is
\* not a Clone or a changed Clone after index 0, and otherwise runs
\* UpdateUpstream (iff task 0 is a changed Clone) then one Render from the
\* old revision's resources.
C13_UpdatePipelineAsClaimed == UpdatePipeline(RefusedAsClaimed)

\* C13, amended: UpdatePackageRevision also refuses a changed Clone whose
\* payload is not set; with that case added to the refused ones, it refuses
\* exactly those task lists and otherwise runs UpdateUpstream (iff task 0 is
\* a changed Clone) then one Render from the old revision's resources.
C13_UpdatePipeline == UpdatePipeline(RefusedAmended)

\* C13's case: an update that changes the Clone at task 0 and keeps the Eval
\* after it has run UpdateUpstream and Render and has been committed.
C13_Witness ==
    /\ engReq.op = "update"
    /\ engReq.oldTasks = <<Task(TaskTypeClone, "a"), Task(TaskTypeEval, "a")>>
    /\ engReq.tasks = <<Task(TaskTypeClone, "b"), Task(TaskTypeEval, "a")>>
    /\ engPc = "returned"
    /\ engDraft.closed
    /\ Len(engDraft.tasks) = 2

(***************************************************************************)
(* Claims on UpdatePackageResources, checked under SpecResources.          *)
(***************************************************************************)
\* The elements of a sequence.
Range(q) == { q[i] : i \in 1..Len(q) }

\* C11: for every old (the resources of the revision, Apply's input) and
\* every new, Apply of ReplaceResources returns new as the snapshot and a
\* patch task that lists, each once, exactly the paths that are in new and
\* not in old, in both with different contents, or in old and not in new;
\* the mutation list of UpdatePackageResources is that one mutation, with no
\* Render after it.
C11_ReplaceResourcesDiff ==
    (engReq.op = "resources" /\ engPc = "updateResources") =>
        LET old == engContents[engReq.name]
            new == engReq.newResources
            added == DOMAIN new \ DOMAIN old
            changed == { k \in DOMAIN new \cap DOMAIN old : new[k] # old[k] }
            removed == DOMAIN old \ DOMAIN new
            patches == engApplied.task.payload
        IN  /\ engApplied.resources = new
            /\ engApplied.task.Type = "patch"
            /\ Range(patches) = added \cup changed \cup removed
            /\ Len(patches) = Cardinality(Range(patches))
            /\ Len(engMutations) = 1
            /\ engMutations[1].kind = "mutationReplaceResources"

\* C11's case: old = {a:1, b:2}, new = {a:1, c:3}; the patch lists c and b.
C11_Witness ==
    /\ engReq.op = "resources"
    /\ engPc = "updateResources"
    /\ engContents[engReq.name] = ("a" :> "1") @@ ("b" :> "2")
    /\ engReq.newResources = ("a" :> "1") @@ ("c" :> "3")
    /\ engApplied.task.payload = <<"c", "b">>

(***************************************************************************)
(* Claims on the function list and the poller, checked under SpecPoll.     *)
(***************************************************************************)
\* Thread t takes a step of a getFunctions call.
GetFunctionsStep(t) == pc'[t] # pc[t] /\ call'[t].op = "getFunctions"

\* C14: over a backend that is no FunctionRepository, a getFunctions call
\* (ListFunctions, or the forced one of pollOnce) returns the empty list and
\* no error, never stands at or after the backend's ListFunctions, and none
\* of its steps changes cachedFunctions, cachedPackages, refreshError or the
\* backend.
C14_NoFunctionListing ==
    /\ [](~supportsFunctions =>
              \A t \in AllThreads :
                  /\ pc[t] \notin {"gfFetch", "gfLock", "gfStore"}
                  /\ (pc[t] = "done" /\ call[t].op = "getFunctions") =>
                         ret[t] = [list |-> Slice(<< >>), err |-> NoError])
    /\ [][ (~supportsFunctions /\ \E t \in AllThreads : GetFunctionsStep(t)) =>
               UNCHANGED <<cachedFunctions, cachedPackages, refreshError, repo>> ]_vars

\* C14's case: over such a backend the poller's forced getFunctions and a
\* caller's ListFunctions have returned, the latter while the cache holds a
\* refresh error.
C14_Witness ==
    /\ ~supportsFunctions
    /\ refreshError # NoError
    /\ \E t \in Threads :
           /\ pc[t] = "done"
           /\ call[t].op = "getFunctions"
           /\ ret[t].list = Slice(<< >>)
    /\ pc[Poller] \in {"select", "exited"}

\* C15: once Close has cancelled the context the poller exits; a poll cycle
\* that is under way at that moment runs to its end, back to the select; an
\* exited poller stays exited; and a Close on a cancelled context changes
\* neither the context, the poller's position nor anything the cache holds.
CloseStep == \E t \in Threads : pc[t] = "idle" /\ call'[t].op = "Close"

C15_CloseStopsPoller ==
    /\ cancelled ~> (pc[Poller] = "exited")
    /\ (cancelled /\ pc[Poller] \notin {"select", "exited"}) ~> (pc[Poller] = "select")
    /\ [][pc[Poller] = "exited" => pc'[Poller] = "exited"]_vars
    /\ [][(cancelled /\ CloseStep) =>
              /\ pc'[Poller] = pc[Poller]
              /\ UNCHANGED <<cancelled, mutex, cachedFunctions, cachedPackages,
                             refreshError, repo>>]_vars

\* Close returns while the poller is inside a poll cycle.
C15_Witness ==
    /\ cancelled
    /\ \E t \in Threads : pc[t] = "done" /\ call[t].op = "Close"
    /\ pc[Poller] \notin {"select", "exited", "pollOnce"}

\* C16: a getPackages call whose backend fetch succeeded has stored the
\* fetched list with refreshError nil and returns the filtered, sorted view
\* of that list with no error, whatever refreshError was when the call began.
C16_FetchSuccessReturned ==
    \A t \in Threads :
        (Returned(t) /\ fetch[t].done /\ fetch[t].err = NoError) =>
            /\ cachedPackages = packages[t]
            /\ refreshError = NoError
            /\ ret[t].err = NoError
            /\ ret[t].list = Slice(toPackageRevisionSlice(packages[t], call[t].filter))

\* The revisions committed in the backend.
Committed == { n \in RepoNames : repo[n] # Absent }

\* No call other than t's is on its way.
OnlyCall(t) == \A u \in Threads \ {t} : pc[u] = "idle"

\* C17: a non-nil cachedPackages is a complete view: a match-all
\* ListPackageRevisions that is served from the cached list, with no other
\* call on its way, and returns without error, returns every revision
\* committed in the backend.
C17_LoadedListComplete ==
    \A t \in Threads :
        ( /\ Listed(t)
          /\ call[t].filter = MatchAll
          /\ ret[t].err = NoError
          /\ ~fetch[t].done
          /\ OnlyCall(t) )
        => NamesOf(ret[t].list.items) = Committed

\* C18: refreshError is set only while cachedPackages is nil, and a
\* ListPackageRevisions served from a loaded list returns that list and no
\* error.
C18_ErrorOnlyWhileUnloaded ==
    /\ refreshError # NoError => cachedPackages.nil
    /\ \A t \in Threads :
           (Listed(t) /\ ~fetch[t].done) => (ret[t].err = NoError /\ ~ret[t].list.nil)

(***************************************************************************)
(* Claims on returned lists, checked under SpecView.                       *)
(***************************************************************************)
\* What a caller sees through the list it holds: each entry's revision and
\* isLatestRevision flag.
SeenThrough(v, objects) == [i \in 1..Len(v.list) |-> objects[v.list[i]]]

\* While the caller holds a returned list, no step changes its entries or
\* the revisions and flags seen through it.
ViewStable ==
    [][ (viewPc[Reader] = "holding" /\ viewPc'[Reader] = "holding") =>
           /\ view' = view
           /\ SeenThrough(view, heapObjects') = SeenThrough(view, heapObjects) ]_vars

\* getPackages does not read the array behind cachedPackages while update()
\* holds the mutex.
NoReadDuringUpdate ==
    [][ (viewPc[Reader] = "build" /\ viewPc'[Reader] = "holding") =>
           ~(mutex = Writer /\ viewLocal.arr # 0 /\ viewLocal.arr = cachedRef.arr) ]_vars

\* C19: a returned list is a point-in-time view: a later update() or
\* refresh changes neither its entries nor the isLatestRevision flags seen
\* through it, and no reader reads the cached list while update() is
\* part-way through modifying it.
C19_PointInTimeView == ViewStable /\ NoReadDuringUpdate

(***************************************************************************)
(* Claims on the mutex, checked under SpecAll.                             *)
(***************************************************************************)
\* The positions between a Lock and its Unlock.
LockedPositions == {"gpRead", "gpStore", "gfRead", "gfStore", "updBody", "delFlush"}

\* The positions at which a thread's next step is a call of the backend.
BackendPositions == {"gpFetch", "gfFetch", "draftOpen"}

\* Thread t's step is a call of the backend: a fetch, a draft's commit, or
\* the CreatePackageRevision, UpdatePackage or DeletePackageRevision that a
\* call begins with.
BackendCall(t) ==
    \/ pc[t] \in BackendPositions /\ pc'[t] # pc[t]
    \/ pc[t] = "idle" /\ call'[t].op \in {"create", "update", "delete"}

\* C20: no thread calls the backend while it holds the mutex: the holder of
\* the mutex stands between a Lock and its Unlock, never at a backend call,
\* and every step that is a backend call is taken by a thread that does not
\* hold the mutex before or after it.
C20_NoBackendCallUnderMutex ==
    /\ [](\A t \in AllThreads :
              /\ mutex = t => pc[t] \in LockedPositions
              /\ pc[t] \in BackendPositions => mutex # t)
    /\ [][\A t \in AllThreads : BackendCall(t) => (mutex # t /\ mutex' # t)]_vars

\* The poller is fetching the package list while a caller holds the mutex.
C20_Witness ==
    /\ pc[Poller] = "gpFetch"
    /\ \E t \in Threads : mutex = t /\ pc[t] \in LockedPositions

(***************************************************************************)
(* Claims on updateDraft, checked under SpecEngine.                        *)
(***************************************************************************)
IsDraftCall(c) == c.op \in {"Apply", "UpdateResources", "Close"}

\* The calls updateDraft has made on mutations and draft, in order.
DraftCalls == SelectSeq(engLog, IsDraftCall)

\* The snapshot updateDraft was called with.
BaseSnapshot ==
    IF engReq.op = "create" THEN EmptyResources ELSE engBefore.contents[engReq.name]

\* What a successful Apply of mutation m can return for the input given.
Outputs(m, input) ==
    IF m.kind = "mutationReplaceResources"
    THEN { replaceResources(input, engReq.newResources, newOrder, oldOrder) :
               newOrder \in Orders(DOMAIN engReq.newResources),
               oldOrder \in Orders(DOMAIN input) }
    ELSE { externalApply(m, input) }

\* C21: the calls of updateDraft over mutations m1..mn are Apply(m1),
\* UpdateResources, Apply(m2), UpdateResources, ..., Close, in that order
\* and each at most once; a call that fails is the last; Apply(m1) is given
\* the base snapshot and Apply(m(i+1)) what UpdateResources i carried, which
\* is an output of Apply(mi) with that step's task; Close comes only after
\* all n steps, once, with nothing after it; and a request that returns
\* without error has called Close.
C21_UpdateDraftOrder ==
    LET calls == DraftCalls
        n == Len(engMutations)
    IN  /\ Len(calls) <= 2 * n + 1
        /\ \A k \in 1..Len(calls) :
               /\ (k <= 2 * n /\ k % 2 = 1) =>
                      /\ calls[k].op = "Apply"
                      /\ calls[k].i = (k + 1) \div 2
                      /\ calls[k].resources =
                             (IF k = 1 THEN BaseSnapshot ELSE calls[k - 1].resources)
               /\ (k <= 2 * n /\ k % 2 = 0) =>
                      /\ calls[k].op = "UpdateResources"
                      /\ calls[k].i = k \div 2
                      /\ \E out \in Outputs(engMutations[k \div 2], calls[k - 1].resources) :
                             /\ calls[k].resources = out.resources
                             /\ calls[k].task = out.task
               /\ k = 2 * n + 1 => calls[k].op = "Close"
               /\ calls[k].err # NoError => k = Len(calls)
        /\ (engPc = "updateResources") =>
               (Len(calls) % 2 = 1 /\ calls[Len(calls)].op = "Apply")
        /\ (engPc = "returned" /\ engRet = NoError) =>
               (Len(calls) = 2 * n + 1 /\ engDraft.closed)
        /\ engDraft.closed => (Len(calls) = 2 * n + 1 /\ calls[2 * n + 1].err = NoError)

\* C21's case: a create request of two tasks has run three steps (the two
\* tasks' mutations and the render) and Close.
C21_Witness ==
    /\ engReq.op = "create"
    /\ Len(engMutations) = 3
    /\ Len(DraftCalls) = 7
    /\ engPc = "returned"
    /\ engRet = NoError
    /\ engDraft.closed

(***************************************************************************)
(* Further claims on the function list and the poller, checked under       *)
(* SpecPoll.                                                               *)
(***************************************************************************)
\* C22: a getFunctions call (forced or not) whose backend fetch failed
\* leaves the cached function list nil and the fetch's error in
\* refreshError.
C22_FunctionFetchErrorStored ==
    \A t \in AllThreads :
        (pc[t] = "done" /\ call[t].op = "getFunctions" /\ ret[t].err # NoError) =>
            /\ cachedFunctions.nil
            /\ refreshError = ret[t].err

\* C23: once the context is cancelled, the poller's select starts no new
\* pollOnce cycle, and so a poller that has found the context cancelled at
\* the select begins no backend fetch.
C23_NoCycleAfterClose ==
    [][ (cancelled /\ pc[Poller] = "select") => pc'[Poller] # "pollOnce" ]_vars

(***************************************************************************)
(* Claims on what the draft and delete operations leave alone, checked     *)
(* under SpecAll.                                                          *)
(***************************************************************************)
\* Thread t's step is the cached repository's CreatePackageRevision or
\* UpdatePackage, the backend opening the draft or refusing to.
OpensDraft(t) == pc[t] = "idle" /\ call'[t].op \in {"create", "update"}

\* Thread t's step is a step of a DeletePackageRevision call.
DeleteStep(t) ==
    \/ pc[t] = "idle" /\ call'[t].op = "delete"
    \/ call[t].op = "delete" /\ pc'[t] # pc[t]

\* C24: opening a draft, whether the backend opens it or refuses, leaves
\* cachedPackages, cachedFunctions and refreshError as they are; so does
\* every step of a DeletePackageRevision, but for the one step of a
\* successful delete that sets cachedPackages to nil.
C24_DraftAndDeleteFrame ==
    [][ \A t \in Threads :
           /\ OpensDraft(t) => UNCHANGED <<cachedPackages, cachedFunctions, refreshError>>
           /\ DeleteStep(t) =>
                  /\ UNCHANGED <<cachedFunctions, refreshError>>
                  /\ IF pc[t] = "delFlush"
                     THEN cachedPackages' = NilSlice
                     ELSE UNCHANGED cachedPackages ]_vars

\* C24's case: a delete has succeeded and dropped the package list while
\* the function list is loaded and an error is stored.
C24_Witness ==
    /\ \E t \in Threads :
           pc[t] = "done" /\ call[t].op = "delete" /\ ret[t].err = NoError
    /\ cachedPackages.nil
    /\ ~cachedFunctions.nil
    /\ refreshError # NoError

====
